---- MODULE Spec2Model ----
(***************************************************************************)
(* cmdproxy: a client `run` call rewrites the caller's argument tree,      *)
(* stages blobs in the store, submits the serialised request to the broker *)
(* and cleans up; a worker decodes the request, materialises it, executes  *)
(* the command and uploads the outputs.                                    *)
(***************************************************************************)
EXTENDS Integers, Sequences, FiniteSets, TLC

VARIABLES
    tree,       \* the caller's arguments of Client.run, as passed
    held,       \* the caller's argument objects as they are now, in keyword order
    store,      \* GridFS: a set of entries [id, host, path, data]
    nextId,     \* next ObjectId the store hands out
    localFs,    \* the caller's filesystem: path -> bytes or NoFile
    streams,    \* the caller's io objects: filename -> [pos, data]
    cpc,        \* where the client call is
    todo,       \* arguments wrap_args_rec has still to visit
    frames,     \* the ExitStacks: the outer one first, FormatGuard's inner ones after
    built,      \* the wrapped arguments produced so far, one list per frame
    exc,        \* the exception in flight in the client ("none" when there is none)
    ret,        \* the value Client.run returns
    queue,      \* the broker queue the task was published to
    wire,       \* the serialised request handed to the broker (none before)
    reply,      \* the serialised response of the worker (none before)
    spc,        \* where the worker's task handler is
    sguards,    \* the worker's entered guards, as a list in entry order
    wtmp,       \* the worker's temp files: guard id -> bytes or NoFile
    sres,       \* the worker pipeline's result so far: the exit code, the exception raised
    wput,       \* the store entries the worker has put
    resp,       \* the RunResponse the client deserialised (none before)
    store0,     \* the store when Client.run was called
    local0,     \* the caller's filesystem when Client.run was called
    ops         \* history of the client call: guard enters and exits, store operations, submit, return

vars == <<tree, held, store, nextId, localFs, streams, cpc, todo, frames, built, exc, ret,
          queue, wire, reply, spc, sguards, wtmp, sres, wput, resp, store0, local0,
          ops>>

\* ------------------------------------------------------------------ bounds
MaxArgs == 2        \* leaves of the positional arguments, Format children included
MaxDepth == 1       \* Format parameters of an argument list, and their nesting depth

\* --------------------------------------------------------------- constants
LOCAL_HOSTNAME == "cli"          \* gethostname() of the caller
REMOTE == "node42"      \* some other host
NoFile == "<absent>"

PathA == "/a"           \* exists on the caller's host
PathB == "/b"           \* does not exist on the caller's host, its directory does
PathC == "/nodir/c"     \* its parent directory does not exist on the caller's host

ClientEnv == [HOME |-> "/home/c"]       \* os.environ of the caller
WorkerEnv == [HOME |-> "/home/w"]       \* os.environ of the worker
CommandPalette == [sh |-> "/bin/sh"]    \* command_palette of the server
ExtQueues == {"celery"}                 \* --ext_queues of the worker
ExitCodes == {0, 3}                     \* exit codes of the subprocess

\* ------------------------------------------------------------- parameters
Prm(k, a, h, tmpl, args) == [k |-> k, a |-> a, h |-> h, tmpl |-> tmpl, args |-> args]
Leaf(k, a, h) == Prm(k, a, h, << >>, << >>)
None == Leaf("None", "", "")
StrParam(v) == Leaf("Str", v, "")
RawScalar(v) == Leaf("Raw", v, "")
EnvParam(n) == Leaf("Env", n, "")
RemoteEnvParam(n) == Leaf("RemoteEnv", n, "")
CmdNameParam(n) == Leaf("CmdName", n, "")
CmdPathParam(p) == Leaf("CmdPath", p, "")
InLocalFileParam(p) == Leaf("InLocal", p, LOCAL_HOSTNAME)
OutLocalFileParam(p) == Leaf("OutLocal", p, LOCAL_HOSTNAME)
InCloudFileParam(p, h) == Leaf("InCloud", p, h)
OutCloudFileParam(p, h) == Leaf("OutCloud", p, h)
InStreamParam(f) == Leaf("InStream", f, "")
OutStreamParam(f) == Leaf("OutStream", f, "")
FormatParam(tmpl, args) == Prm("Format", "", "", tmpl, args)
\* FormatParam.args is a mapping: the child at position j of args has the key ArgKeys[j]
ArgKeys == << "x", "y", "z", "w" >>
KeyIndex(key) == CHOOSE j \in 1..Len(ArgKeys) : ArgKeys[j] = key
\* a template is a sequence of pieces, each a literal followed by a placeholder {key};
\* the template over n children names them last to first: "-{y}-{x}" for two
Tmpl(n) == [j \in 1..n |-> [lit |-> "-", key |-> ArgKeys[n + 1 - j]]]

InFileKinds == {"InLocal", "InCloud"}
OutFileKinds == {"OutLocal", "OutCloud"}
FileKinds == InFileKinds \cup OutFileKinds
LocalKinds == {"InLocal", "OutLocal"}
CloudKinds == {"InCloud", "OutCloud"}
StreamKinds == {"InStream", "OutStream"}

is_local(p) == p.k \in LocalKinds
is_cloud(p) == p.k \in CloudKinds
is_input(p) == p.k \in InFileKinds
is_output(p) == p.k \in OutFileKinds

\* the canonical blob name @hostname:path, as the pair the store is searched by
cloud_url(p) == <<p.h, p.a>>

\* every file parameter becomes an input cloud file
as_cloudInput(p) == InCloudFileParam(p.a, p.h)
as_cloud(p) ==
    IF is_input(p) THEN (IF p.k = "InCloud" THEN p ELSE InCloudFileParam(p.a, p.h))
    ELSE (IF p.k = "OutCloud" THEN p ELSE OutCloudFileParam(p.a, p.h))

\* Param.ipath / Param.opath of a stream's filename: a plain path gives the local variant
ipath(ref) == InLocalFileParam(ref)
opath(ref) == OutLocalFileParam(ref)

\* ------------------------------------------------------------------ store
Entry(id, name, data) == [id |-> id, host |-> name[1], path |-> name[2], data |-> data]
Named(s, name) == {e \in s : e.host = name[1] /\ e.path = name[2]}
exists_on_cloud(s, name) == Named(s, name) # {}
Names(s) == {<<e.host, e.path>> : e \in s}
fs_put(s, id, name, data) == s \cup {Entry(id, name, data)}
fs_delete(s, id) == {e \in s : e.id # id}

DirExists(path) == path # PathC

\* str(x) of a raw scalar the caller passed
PyStr == [i10 |-> "10", bFalse |-> "False", sC |-> "-c", f05 |-> "0.5"]
str(x) == PyStr[x]

\* bytes
DataA == "A"        \* content of PathA on the caller's host
DataS == "S"        \* what the caller's readers hold
DataOld == "old"    \* content of blobs that are in the store before the call
DataW == "W"        \* what the worker's command writes to an output file
Empty == ""         \* b''

\* ---------------------------------------------------------- argument trees
RECURSIVE Tok(_), TokSeq(_), LeafCount(_), LeafCountSeq(_), LeavesOf(_), LeavesOfSeq(_)
\* the visit order of wrap_args_rec: a Format's children between its open and close
Tok(p) ==
    IF p.k = "None" THEN << [t |-> "none", p |-> p] >>
    ELSE IF p.k = "Format"
         THEN << [t |-> "open", p |-> p] >> \o TokSeq(p.args) \o << [t |-> "close", p |-> p] >>
         ELSE << [t |-> "leaf", p |-> p] >>
TokSeq(ps) == IF ps = << >> THEN << >> ELSE Tok(Head(ps)) \o TokSeq(Tail(ps))

LeafCount(p) == IF p.k = "Format" THEN LeafCountSeq(p.args) ELSE 1
LeafCountSeq(ps) == IF ps = << >> THEN 0 ELSE LeafCount(Head(ps)) + LeafCountSeq(Tail(ps))
\* every parameter of a list, the children of Formats included, in visit order
LeavesOf(p) == IF p.k = "Format" THEN << p >> \o LeavesOfSeq(p.args) ELSE << p >>
LeavesOfSeq(ps) == IF ps = << >> THEN << >> ELSE LeavesOf(Head(ps)) \o LeavesOfSeq(Tail(ps))

\* Client.run(command, args, stdout, stderr, env, cwd, queue); kwargs keep this order
Tree(command, args, stdout, stderr, hasEnv, env, cwd, q) ==
    [command |-> command, args |-> args, stdout |-> stdout, stderr |-> stderr,
     hasEnv |-> hasEnv, env |-> env, cwd |-> cwd, queue |-> q]
TreeParams(t) == << t.command >> \o t.args \o << t.stdout, t.stderr >> \o t.env \o << t.cwd >>
Tokens(t) == TokSeq(TreeParams(t))
AllParams(t) == LeavesOfSeq(TreeParams(t))

\* the request the wrapped arguments make up (RunRequest of PackAndSerializeMiddle)
RunRequest(t, b) ==
    LET na == Len(t.args) ne == Len(t.env) IN
    [command |-> b[1], args |-> SubSeq(b, 2, 1 + na), stdout |-> b[2 + na],
     stderr |-> b[3 + na], hasEnv |-> t.hasEnv, env |-> SubSeq(b, 4 + na, 3 + na + ne),
     cwd |-> b[4 + na + ne]]
RequestParams(r) == LeavesOfSeq(<< r.command >> \o r.args \o << r.stdout, r.stderr >> \o r.env \o << r.cwd >>)

\* ----------------------------------------------------------- serialisation
\* AutoDict name of each Param subclass: the single key of the JSON object
TagOf == [Str |-> "StrParam", Env |-> "EnvParam", RemoteEnv |-> "RemoteEnvParam",
          CmdName |-> "CmdNameParam", CmdPath |-> "CmdPathParam", Format |-> "FormatParam",
          InLocal |-> "InLocalFileParam", OutLocal |-> "OutLocalFileParam",
          InCloud |-> "InCloudFileParam", OutCloud |-> "OutCloudFileParam"]
KnownTags == {TagOf[k] : k \in DOMAIN TagOf}
\* the decoder takes every cloud file for an input file
KindOfTagInput(tag) ==
    IF tag = "OutCloudFileParam" THEN "InCloud" ELSE CHOOSE k \in DOMAIN TagOf : TagOf[k] = tag
KindOfTag(tag) == CHOOSE k \in DOMAIN TagOf : TagOf[k] = tag
JNull == [tag |-> "null", s |-> "", hostname |-> "", tmpl |-> << >>, args |-> << >>]

RECURSIVE to_dict(_), to_dict_seq(_), from_dict(_), from_dict_seq(_), Decodable(_), DecodableSeq(_)
to_dict(p) ==
    IF p.k = "None" THEN JNull
    ELSE [tag |-> TagOf[p.k], s |-> p.a, hostname |-> p.h, tmpl |-> p.tmpl,
          args |-> to_dict_seq(p.args)]
to_dict_seq(ps) == IF ps = << >> THEN << >> ELSE << to_dict(Head(ps)) >> \o to_dict_seq(Tail(ps))
Decodable(j) == j.tag = "null" \/ (j.tag \in KnownTags /\ DecodableSeq(j.args))
DecodableSeq(js) == js = << >> \/ (Decodable(Head(js)) /\ DecodableSeq(Tail(js)))
from_dict(j) ==
    IF j.tag = "null" THEN None
    ELSE Prm(KindOfTag(j.tag), j.s, j.hostname, j.tmpl, from_dict_seq(j.args))
from_dict_seq(js) == IF js = << >> THEN << >> ELSE << from_dict(Head(js)) >> \o from_dict_seq(Tail(js))

\* AutoSerde.serialize(run_request) and AutoSerde.deserialize(cls=RunRequest)
SerializeRequest(r) ==
    [json |-> TRUE, command |-> to_dict(r.command), args |-> to_dict_seq(r.args),
     stdout |-> to_dict(r.stdout), stderr |-> to_dict(r.stderr), hasEnv |-> r.hasEnv,
     env |-> to_dict_seq(r.env), cwd |-> to_dict(r.cwd)]
RequestDecodable(m) ==
    /\ m.json
    /\ DecodableSeq(<< m.command >> \o m.args \o << m.stdout, m.stderr >> \o m.env \o << m.cwd >>)
DeserializeRequest(m) ==
    [command |-> from_dict(m.command), args |-> from_dict_seq(m.args),
     stdout |-> from_dict(m.stdout), stderr |-> from_dict(m.stderr), hasEnv |-> m.hasEnv,
     env |-> from_dict_seq(m.env), cwd |-> from_dict(m.cwd)]

NullExc == "<null>"
RunResponse(return_code, e) == [return_code |-> return_code, exc |-> e]
SerializeResponse(r) == [json |-> TRUE, return_code |-> r.return_code, exc |-> r.exc]
DeserializeResponse(m) == RunResponse(m.return_code, m.exc)
GarbageResponse == [json |-> FALSE, return_code |-> 0, exc |-> NullExc]

\* -------------------------------------------------------------- history
Ev(op, who, id, name) == [op |-> op, who |-> who, id |-> id, host |-> name[1], path |-> name[2]]
NoName == << "", "" >>

\* ------------------------------------------------------- client: the call
Exc(kind, code) == [kind |-> kind, code |-> code]
NoExc == Exc("none", 0)
\* errors.ServerEndException(exc, return_code=-1)
ServerEndException(e) == Exc("ServerEndException", -1)
G(id, p, out, fid, inner) == [id |-> id, k |-> p.k, p |-> p, out |-> out, fid |-> fid, inner |-> inner]
TokId == Len(Tokens(tree)) - Len(todo) + 1
Top == frames[Len(frames)]
Cur == Head(todo).p

\* stack.enter_context(guard) returned `out`: the guard is on the innermost ExitStack
Entered(g) ==
    /\ frames' = [frames EXCEPT ![Len(frames)] = Append(@, g)]
    /\ built' = [built EXCEPT ![Len(built)] = Append(@, g.out)]
    /\ todo' = Tail(todo)
    /\ UNCHANGED <<cpc, exc>>

\* the guard raised before its yield: the with block of wrapped() unwinds
EnterRaised(e) ==
    /\ cpc' = "exit"
    /\ exc' = Exc(e, 0)
    /\ todo' = << >>
    /\ UNCHANGED <<frames, built>>

AtLeaf(kinds) == cpc = "enter" /\ todo # << >> /\ Head(todo).t = "leaf" /\ Cur.k \in kinds

ServerSide == <<wire, reply, spc, sguards, wtmp, sres, wput>>
CallerSide == <<tree, held, localFs, streams, store0, local0, ret, queue, resp>>

\* the queue is always the command's own name or path, whatever the caller passed
ClientRunByName ==
    /\ cpc = "call"
    /\ IF tree.command.k \notin {"CmdName", "CmdPath"}
          \/ (tree.command.k = "CmdPath" /\ tree.queue = "")
       THEN /\ cpc' = "done"
            /\ exc' = Exc("AssertionError", 0)
            /\ ops' = Append(ops, Ev("raise", "client", 0, NoName))
            /\ UNCHANGED <<queue, todo>>
       ELSE /\ cpc' = "enter"
            /\ queue' = tree.command.a
            /\ todo' = Tokens(tree)
            /\ ops' = ops
            /\ exc' = exc
    /\ UNCHANGED <<tree, held, store, nextId, localFs, streams, frames, built, ret, store0, local0,
                   resp>>
    /\ UNCHANGED ServerSide

\* Client.run up to the call of proxy(): the command and the queue are checked
ClientRun ==
    /\ cpc = "call"
    /\ IF tree.command.k \notin {"CmdName", "CmdPath"}
          \/ (tree.command.k = "CmdPath" /\ tree.queue = "")
       THEN /\ cpc' = "done"
            /\ exc' = Exc("AssertionError", 0)
            /\ ops' = Append(ops, Ev("raise", "client", 0, NoName))
            /\ UNCHANGED <<queue, todo>>
       ELSE /\ cpc' = "enter"
            /\ queue' = IF tree.command.k = "CmdName" /\ tree.queue = ""
                        THEN tree.command.a ELSE tree.queue
            /\ todo' = Tokens(tree)
            /\ ops' = ops
            /\ exc' = exc
    /\ UNCHANGED <<tree, held, store, nextId, localFs, streams, frames, built, ret, store0, local0,
                   resp>>
    /\ UNCHANGED ServerSide

\* wrap(): None is returned as it is, no guard is made
WrapNone ==
    /\ cpc = "enter" /\ todo # << >> /\ Head(todo).t = "none"
    /\ built' = [built EXCEPT ![Len(built)] = Append(@, None)]
    /\ todo' = Tail(todo)
    /\ UNCHANGED <<store, nextId, frames, cpc, exc, ops>>
    /\ UNCHANGED CallerSide /\ UNCHANGED ServerSide

AnyGuard ==
    /\ AtLeaf({"Str", "Raw"})
    /\ Entered(G(TokId, Cur, IF Cur.k = "Str" THEN Cur ELSE StrParam(str(Cur.a)), 0, << >>))
    /\ ops' = Append(ops, Ev("enter", "client", TokId, NoName))
    /\ UNCHANGED <<store, nextId>>
    /\ UNCHANGED CallerSide /\ UNCHANGED ServerSide

\* the guard yields an empty string for a variable that is not set
EnvGuardDefaults ==
    /\ AtLeaf({"Env"})
    /\ Entered(G(TokId, Cur, StrParam(IF Cur.a \in DOMAIN ClientEnv THEN ClientEnv[Cur.a] ELSE Empty),
                 0, << >>))
    /\ ops' = Append(ops, Ev("enter", "client", TokId, NoName))
    /\ UNCHANGED <<store, nextId>>
    /\ UNCHANGED CallerSide /\ UNCHANGED ServerSide

\* EnvGuard.guard: os.environ[arg.name] raises KeyError before the yield
EnvGuard ==
    /\ AtLeaf({"Env"})
    /\ IF Cur.a \in DOMAIN ClientEnv
       THEN /\ Entered(G(TokId, Cur, StrParam(ClientEnv[Cur.a]), 0, << >>))
            /\ ops' = Append(ops, Ev("enter", "client", TokId, NoName))
       ELSE /\ EnterRaised("KeyError")
            /\ ops' = ops
    /\ UNCHANGED <<store, nextId>>
    /\ UNCHANGED CallerSide /\ UNCHANGED ServerSide

RemoteEnvGuard ==
    /\ AtLeaf({"RemoteEnv"})
    /\ Entered(G(TokId, Cur, EnvParam(Cur.a), 0, << >>))
    /\ ops' = Append(ops, Ev("enter", "client", TokId, NoName))
    /\ UNCHANGED <<store, nextId>>
    /\ UNCHANGED CallerSide /\ UNCHANGED ServerSide

CmdNameGuard ==
    /\ AtLeaf({"CmdName"})
    /\ Entered(G(TokId, Cur, Cur, 0, << >>))
    /\ ops' = Append(ops, Ev("enter", "client", TokId, NoName))
    /\ UNCHANGED <<store, nextId>>
    /\ UNCHANGED CallerSide /\ UNCHANGED ServerSide

CmdPathGuard ==
    /\ AtLeaf({"CmdPath"})
    /\ Entered(G(TokId, Cur, Cur, 0, << >>))
    /\ ops' = Append(ops, Ev("enter", "client", TokId, NoName))
    /\ UNCHANGED <<store, nextId>>
    /\ UNCHANGED CallerSide /\ UNCHANGED ServerSide

\* StreamParam.read_bytes: io.read() gives what is left and moves to the end
read_bytes(io) == IF io.pos >= Len(io.data) THEN Empty ELSE io.data[io.pos + 1]
AfterRead(io) == [io EXCEPT !.pos = Len(io.data)]
\* tgt.write(bytes) at the current position
Write(io, d) ==
    IF d = Empty THEN io
    ELSE [pos |-> io.pos + 1,
          data |-> SubSeq(io.data, 1, io.pos) \o << d >> \o SubSeq(io.data, io.pos + 2, Len(io.data))]

InStreamGuard ==
    /\ AtLeaf({"InStream"})
    /\ LET param == as_cloud(ipath(Cur.a)) IN
       /\ store' = fs_put(store, nextId, cloud_url(param), read_bytes(streams[Cur]))
       /\ nextId' = nextId + 1
       /\ streams' = [streams EXCEPT ![Cur] = AfterRead(@)]
       /\ Entered(G(TokId, Cur, param, nextId, << >>))
       /\ ops' = ops \o << Ev("put", "client", TokId, cloud_url(param)),
                           Ev("enter", "client", TokId, NoName) >>
    /\ UNCHANGED <<tree, held, localFs, store0, local0, ret, queue, resp>>
    /\ UNCHANGED ServerSide

OutStreamGuard ==
    /\ AtLeaf({"OutStream"})
    /\ Entered(G(TokId, Cur, as_cloud(opath(Cur.a)), 0, << >>))
    /\ ops' = Append(ops, Ev("enter", "client", TokId, NoName))
    /\ UNCHANGED <<store, nextId>>
    /\ UNCHANGED CallerSide /\ UNCHANGED ServerSide

\* the guard yields the cloud sibling without uploading the file first
InFileGuardNoUpload ==
    /\ AtLeaf(InFileKinds)
    /\ Entered(G(TokId, Cur, as_cloud(Cur), 0, << >>))
    /\ ops' = Append(ops, Ev("enter", "client", TokId, NoName))
    /\ UNCHANGED <<store, nextId>>
    /\ UNCHANGED CallerSide /\ UNCHANGED ServerSide

\* InFileGuard.guard up to its yield; upload_ opens the caller's file
InFileGuard ==
    /\ AtLeaf(InFileKinds)
    /\ IF is_local(Cur)
       THEN IF localFs[Cur.a] = NoFile
            THEN /\ EnterRaised("FileNotFoundError")
                 /\ UNCHANGED <<store, nextId, ops>>
            ELSE /\ store' = fs_put(store, nextId, cloud_url(Cur), localFs[Cur.a])
                 /\ nextId' = nextId + 1
                 /\ Entered(G(TokId, Cur, as_cloud(Cur), nextId, << >>))
                 /\ ops' = ops \o << Ev("put", "client", TokId, cloud_url(Cur)),
                                     Ev("enter", "client", TokId, NoName) >>
       ELSE /\ Entered(G(TokId, Cur, Cur, 0, << >>))
            /\ ops' = Append(ops, Ev("enter", "client", TokId, NoName))
            /\ UNCHANGED <<store, nextId>>
    /\ UNCHANGED CallerSide /\ UNCHANGED ServerSide

\* the guard yields the caller's parameter as it is, local or not
OutFileGuardAsIs ==
    /\ AtLeaf(OutFileKinds)
    /\ Entered(G(TokId, Cur, Cur, 0, << >>))
    /\ ops' = Append(ops, Ev("enter", "client", TokId, NoName))
    /\ UNCHANGED <<store, nextId>>
    /\ UNCHANGED CallerSide /\ UNCHANGED ServerSide

OutFileGuard ==
    /\ AtLeaf(OutFileKinds)
    /\ Entered(G(TokId, Cur, IF is_local(Cur) THEN as_cloud(Cur) ELSE Cur, 0, << >>))
    /\ ops' = Append(ops, Ev("enter", "client", TokId, NoName))
    /\ UNCHANGED <<store, nextId>>
    /\ UNCHANGED CallerSide /\ UNCHANGED ServerSide

\* FormatGuard.guard: a new ExitStack for the children
FormatGuard ==
    /\ cpc = "enter" /\ todo # << >> /\ Head(todo).t = "open"
    /\ frames' = Append(frames, << >>)
    /\ built' = Append(built, << >>)
    /\ todo' = Tail(todo)
    /\ UNCHANGED <<store, nextId, cpc, exc, ops>>
    /\ UNCHANGED CallerSide /\ UNCHANGED ServerSide

\* arg.args = wrapped, on the caller's own FormatParam: at depth d it is the parameter
\* that follows the Len(built[d]) parameters already wrapped there
RECURSIVE Assigned(_, _, _)
Assigned(ps, d, wrapped) ==
    LET i == Len(built[d]) + 1 IN
    [ps EXCEPT ![i] = IF d = Len(built) - 1 THEN [ps[i] EXCEPT !.args = wrapped]
                      ELSE [ps[i] EXCEPT !.args = Assigned(ps[i].args, d + 1, wrapped)]]
\* FormatGuard.guard reaches its yield: arg.args are the wrapped children
FormatGuardYield ==
    /\ cpc = "enter" /\ todo # << >> /\ Head(todo).t = "close"
    /\ LET n == Len(frames)
           g == G(TokId, Cur, FormatParam(Cur.tmpl, built[n]), 0, frames[n])
       IN /\ frames' = [SubSeq(frames, 1, n - 1) EXCEPT ![n - 1] = Append(@, g)]
          /\ built' = [SubSeq(built, 1, n - 1) EXCEPT ![n - 1] = Append(@, g.out)]
    /\ held' = Assigned(held, 1, built[Len(built)])
    /\ todo' = Tail(todo)
    /\ ops' = Append(ops, Ev("enter", "client", TokId, NoName))
    /\ UNCHANGED <<store, nextId, cpc, exc>>
    /\ UNCHANGED <<tree, localFs, streams, store0, local0, ret, queue, resp>>
    /\ UNCHANGED ServerSide

\* ------------------------------------------------- client: the dispatch
\* PackAndSerializeMiddle.wrapped up to func(): apply_async published the task
PackAndSerialize ==
    /\ cpc = "enter" /\ todo = << >>
    /\ wire' = << SerializeRequest(RunRequest(tree, built[1])) >>
    /\ cpc' = "wait"
    /\ ops' = Append(ops, Ev("submit", "client", 0, NoName))
    /\ UNCHANGED <<store, nextId, todo, frames, built, exc, reply, spc, sguards, wtmp, sres,
                   wput>>
    /\ UNCHANGED CallerSide

\* apply_async raised: the broker did not take the task
SubmitFails ==
    /\ cpc = "enter" /\ todo = << >>
    /\ cpc' = "exit"
    /\ exc' = Exc("DispatchFailure", 0)
    /\ UNCHANGED <<store, nextId, todo, frames, built, ops>>
    /\ UNCHANGED CallerSide /\ UNCHANGED ServerSide

\* .get() returned the worker's string; PackAndSerializeMiddle.wrapped decodes it
ProxyGet ==
    /\ cpc = "wait" /\ reply # << >>
    /\ \E m \in {reply[1], GarbageResponse} :
          IF ~m.json
          THEN exc' = Exc("DecodeError", 0) /\ ret' = ret /\ resp' = resp
          ELSE /\ resp' = << DeserializeResponse(m) >>
               /\ IF m.exc # NullExc
                  THEN exc' = ServerEndException(m.exc) /\ ret' = ret
                  ELSE exc' = exc /\ ret' = << m.return_code >>
    /\ cpc' = "exit"
    /\ UNCHANGED <<tree, held, store, nextId, localFs, streams, todo, frames, built, queue,
                   store0, local0, ops>>
    /\ UNCHANGED ServerSide

\* .get() was interrupted or timed out while the caller waited
WaitCancelled ==
    /\ cpc = "wait"
    /\ cpc' = "exit"
    /\ exc' = Exc("Cancelled", 0)
    /\ UNCHANGED <<store, nextId, todo, frames, built, ops>>
    /\ UNCHANGED CallerSide /\ UNCHANGED ServerSide

\* ------------------------------------------------------ client: the exits
Last == Top[Len(Top)]
AtExit(kinds) == cpc = "exit" /\ Top # << >> /\ Last.k \in kinds
Pop == frames' = [frames EXCEPT ![Len(frames)] = SubSeq(@, 1, Len(@) - 1)]
ExitFrame == <<tree, held, todo, built, ret, queue, store0, local0, cpc, nextId, resp>>

\* guards whose generator has nothing after the yield
PlainGuardExit ==
    /\ AtExit({"Str", "Raw", "Env", "RemoteEnv", "CmdName", "CmdPath", "InCloud", "OutCloud"})
    /\ Pop
    /\ ops' = Append(ops, Ev("exit", "client", Last.id, NoName))
    /\ UNCHANGED <<store, localFs, streams, exc>>
    /\ UNCHANGED ExitFrame /\ UNCHANGED ServerSide

\* FileParamBase.remove_from_cloud: find_one by name, delete that entry
remove_from_cloud(name) ==
    IF Named(store, name) = {} THEN store' = store
    ELSE \E e \in Named(store, name) : store' = fs_delete(store, e.id)

\* the exit leaves the staged blob in the store
InStreamGuardExitLeaves ==
    /\ AtExit({"InStream"})
    /\ Pop
    /\ ops' = Append(ops, Ev("exit", "client", Last.id, NoName))
    /\ UNCHANGED <<store, localFs, streams, exc>>
    /\ UNCHANGED ExitFrame /\ UNCHANGED ServerSide

\* InStreamGuard.guard after its yield
InStreamGuardExit ==
    /\ AtExit({"InStream"})
    /\ Pop
    /\ remove_from_cloud(cloud_url(Last.out))
    /\ ops' = ops \o << Ev("del", "client", Last.id, cloud_url(Last.out)),
                        Ev("exit", "client", Last.id, NoName) >>
    /\ UNCHANGED <<localFs, streams, exc>>
    /\ UNCHANGED ExitFrame /\ UNCHANGED ServerSide

\* the exit without the final seek: the writer is left at the end of what it wrote
OutStreamGuardExitNoSeek ==
    /\ AtExit({"OutStream"})
    /\ Pop
    /\ LET name == cloud_url(Last.out) IN
       IF Named(store, name) = {}
       THEN /\ exc' = Exc("FileNotFoundError", 0)
            /\ ops' = Append(ops, Ev("exit", "client", Last.id, NoName))
            /\ UNCHANGED <<store, streams>>
       ELSE /\ \E src \in Named(store, name) :
                  streams' = [streams EXCEPT ![Last.p] = Write(@, src.data)]
            /\ remove_from_cloud(name)
            /\ ops' = ops \o << Ev("get", "client", Last.id, name),
                                Ev("del", "client", Last.id, name),
                                Ev("exit", "client", Last.id, NoName) >>
            /\ exc' = exc
    /\ UNCHANGED localFs
    /\ UNCHANGED ExitFrame /\ UNCHANGED ServerSide

\* an exit that raises ends the unwinding: the guards entered before it never exit
OutStreamGuardExitAborts ==
    /\ AtExit({"OutStream"})
    /\ LET name == cloud_url(Last.out) IN
       IF Named(store, name) = {}
       THEN /\ frames' = << << >> >>
            /\ exc' = Exc("FileNotFoundError", 0)
            /\ ops' = Append(ops, Ev("exit", "client", Last.id, NoName))
            /\ UNCHANGED <<store, streams>>
       ELSE /\ Pop
            /\ \E src \in Named(store, name) :
                  streams' = [streams EXCEPT ![Last.p] =
                                 [Write(@, src.data) EXCEPT !.pos = streams[Last.p].pos]]
            /\ remove_from_cloud(name)
            /\ ops' = ops \o << Ev("get", "client", Last.id, name),
                                Ev("del", "client", Last.id, name),
                                Ev("exit", "client", Last.id, NoName) >>
            /\ exc' = exc
    /\ UNCHANGED localFs
    /\ UNCHANGED ExitFrame /\ UNCHANGED ServerSide

\* tell, download to the io, remove_from_cloud, seek back
OutStreamGuardExit ==
    /\ AtExit({"OutStream"})
    /\ Pop
    /\ LET name == cloud_url(Last.out) IN
       IF Named(store, name) = {}
       THEN /\ exc' = Exc("FileNotFoundError", 0)
            /\ ops' = Append(ops, Ev("exit", "client", Last.id, NoName))
            /\ UNCHANGED <<store, streams>>
       ELSE /\ \E src \in Named(store, name) :
                  streams' = [streams EXCEPT ![Last.p] =
                                 [Write(@, src.data) EXCEPT !.pos = streams[Last.p].pos]]
            /\ remove_from_cloud(name)
            /\ ops' = ops \o << Ev("get", "client", Last.id, name),
                                Ev("del", "client", Last.id, name),
                                Ev("exit", "client", Last.id, NoName) >>
            /\ exc' = exc
    /\ UNCHANGED localFs
    /\ UNCHANGED ExitFrame /\ UNCHANGED ServerSide

\* the finally clause forgets fs.delete(file_id)
InFileGuardExitKeeps ==
    /\ AtExit({"InLocal"})
    /\ Pop
    /\ store' = store
    /\ ops' = ops \o << Ev("del", "client", Last.id, cloud_url(Last.out)),
                        Ev("exit", "client", Last.id, NoName) >>
    /\ UNCHANGED <<localFs, streams, exc>>
    /\ UNCHANGED ExitFrame /\ UNCHANGED ServerSide

InFileGuardExit ==
    /\ AtExit({"InLocal"})
    /\ Pop
    /\ store' = fs_delete(store, Last.fid)
    /\ ops' = ops \o << Ev("del", "client", Last.id, cloud_url(Last.out)),
                        Ev("exit", "client", Last.id, NoName) >>
    /\ UNCHANGED <<localFs, streams, exc>>
    /\ UNCHANGED ExitFrame /\ UNCHANGED ServerSide

\* download_ under suppress(FileNotFoundError): open the caller's path for writing,
\* find the blob, copy it, then delete the entry that was read
OutFileGuardExit ==
    /\ AtExit({"OutLocal"})
    /\ Pop
    /\ LET name == cloud_url(Last.out) path == Last.p.a IN
       IF ~DirExists(path)
       THEN /\ UNCHANGED <<store, localFs>>
            /\ ops' = Append(ops, Ev("exit", "client", Last.id, NoName))
       ELSE IF Named(store, name) = {}
            THEN /\ localFs' = [localFs EXCEPT ![path] = Empty]
                 /\ store' = store
                 /\ ops' = Append(ops, Ev("exit", "client", Last.id, NoName))
            ELSE /\ \E src \in Named(store, name) :
                       /\ localFs' = [localFs EXCEPT ![path] = src.data]
                       /\ store' = fs_delete(store, src.id)
                 /\ ops' = ops \o << Ev("get", "client", Last.id, name),
                                     Ev("del", "client", Last.id, name),
                                     Ev("exit", "client", Last.id, NoName) >>
    /\ UNCHANGED <<streams, exc>>
    /\ UNCHANGED ExitFrame /\ UNCHANGED ServerSide

\* the children were entered on a stack nobody closes
FormatGuardExitDrops ==
    /\ AtExit({"Format"})
    /\ Pop
    /\ ops' = Append(ops, Ev("exit", "client", Last.id, NoName))
    /\ UNCHANGED <<store, localFs, streams, exc>>
    /\ UNCHANGED ExitFrame /\ UNCHANGED ServerSide

\* FormatGuard.guard after its yield: the inner ExitStack unwinds the children
FormatGuardExit ==
    /\ AtExit({"Format"})
    /\ frames' = Append([frames EXCEPT ![Len(frames)] = SubSeq(@, 1, Len(@) - 1)], Last.inner)
    /\ ops' = Append(ops, Ev("exit", "client", Last.id, NoName))
    /\ UNCHANGED <<store, localFs, streams, exc>>
    /\ UNCHANGED ExitFrame /\ UNCHANGED ServerSide

\* an inner ExitStack is empty: its with block is left
InnerStackClosed ==
    /\ cpc = "exit" /\ Top = << >> /\ Len(frames) > 1
    /\ frames' = SubSeq(frames, 1, Len(frames) - 1)
    /\ ops' = ops
    /\ UNCHANGED <<store, localFs, streams, exc>>
    /\ UNCHANGED ExitFrame /\ UNCHANGED ServerSide

\* the outer ExitStack is empty: wrapped() returns or raises to the caller of run
ClientReturn ==
    /\ cpc = "exit" /\ frames = << << >> >>
    /\ cpc' = "done"
    /\ ops' = Append(ops, Ev(IF exc = NoExc THEN "return" ELSE "raise", "client", 0, NoName))
    /\ UNCHANGED <<tree, held, store, nextId, localFs, streams, todo, frames, built, exc, ret,
                   queue, store0, local0, resp>>
    /\ UNCHANGED ServerSide

\* ------------------------------------------------------------- the worker
WorkerQueues == DOMAIN CommandPalette \cup ExtQueues    \* launch(): --queues
WorkerPaths == {"/bin/sh"}                              \* executables on the worker

\* the guards the server pipeline enters, in entry order (a Format after its children),
\* each with the keyword of wrapped() it belongs to
Kept(ps) == SelectSeq(TokSeq(ps), LAMBDA t : t.t \in {"leaf", "close"})
At(ps, pos) == [i \in 1..Len(Kept(ps)) |-> [p |-> Kept(ps)[i].p, pos |-> pos]]
SGuardsOf(r) ==
    At(<< r.command >>, "command") \o At(r.args, "args") \o At(<< r.stdout >>, "stdout")
    \o At(<< r.stderr >>, "stderr") \o At(r.env, "env") \o At(<< r.cwd >>, "cwd")

\* os.getenv answers a default for a variable that is not set: the Env guard never raises
SEnterEnvDefault(p, s) ==
    CASE p.k = "RemoteEnv" -> "AttributeError"
      [] p.k = "CmdName" -> IF p.a \in DOMAIN CommandPalette THEN "none" ELSE "KeyError"
      [] p.k = "CmdPath" -> IF p.a \in WorkerPaths THEN "none" ELSE "FileNotFoundError"
      [] p.k \in InFileKinds -> IF exists_on_cloud(s, cloud_url(p)) THEN "none"
                                ELSE "FileNotFoundError"
      [] OTHER -> "none"
\* what the enter of the server guard of p raises ("none": it yields)
SEnterFails(p, s) ==
    CASE p.k = "Env" -> IF p.a \in DOMAIN WorkerEnv THEN "none" ELSE "KeyError"
      [] p.k = "RemoteEnv" -> "AttributeError"
      [] p.k = "CmdName" -> IF p.a \in DOMAIN CommandPalette THEN "none" ELSE "KeyError"
      [] p.k = "CmdPath" -> IF p.a \in WorkerPaths THEN "none" ELSE "FileNotFoundError"
      [] p.k \in InFileKinds -> IF exists_on_cloud(s, cloud_url(p)) THEN "none"
                                ELSE "FileNotFoundError"
      [] OTHER -> "none"

FailingGuards(gs, s) == {i \in 1..Len(gs) : SEnterFails(gs[i].p, s) # "none"}
Min(S) == CHOOSE x \in S : \A y \in S : x <= y

\* one entry per name: what find_one answers for each name
FindOneChoices(s) ==
    {c \in SUBSET s : \A n \in Names(s) : Cardinality(Named(c, n)) = 1}
\* the download writes nothing into the temp file
DataOfNothing(c, name) == Empty
DataOf(c, name) == (CHOOSE e \in c : e.host = name[1] /\ e.path = name[2]).data

\* FileParamBase.filename: the last component of the path
Basename == (PathA :> "a") @@ (PathB :> "b") @@ (PathC :> "c")
filename(p) == Basename[p.a]
\* tempfile.TemporaryDirectory(prefix=arg.hostname): a fresh directory for each guard
\* call, named here after the hostname and the position of the guard
workspace(i, p) == "/tmp/" \o p.h \o ToString(i)
\* os.path.join(workspace, arg.filename): the path the guard yields; wtmp[i] is the
\* content of the file at this path
filepath(i, p) == workspace(i, p) \o "/" \o filename(p)

\* the placeholders are filled in the order of the children, whatever their names
RECURSIVE formatInOrder(_, _)
formatInOrder(tmpl, vals) ==
    IF tmpl = << >> THEN ""
    ELSE Head(tmpl).lit \o Head(vals) \o formatInOrder(Tail(tmpl), Tail(vals))
\* tmpl.format(**args): each placeholder is replaced by the value of that name
RECURSIVE format(_, _)
format(tmpl, vals) ==
    IF tmpl = << >> THEN ""
    ELSE Head(tmpl).lit \o vals[KeyIndex(Head(tmpl).key)] \o format(Tail(tmpl), vals)

\* what the server guards yield to the command: the guard of p is guard number i of the
\* request, the guards of the children of a Format are the ones just before its own
GuardCount(ps) == Len(Kept(ps))
RECURSIVE Yield(_, _), YieldSeq(_, _)
Yield(p, i) ==
    CASE p.k = "Str" -> p.a
      [] p.k = "Env" -> IF p.a \in DOMAIN WorkerEnv THEN WorkerEnv[p.a] ELSE ""
      [] p.k = "CmdName" -> IF p.a \in DOMAIN CommandPalette THEN CommandPalette[p.a] ELSE ""
      [] p.k = "CmdPath" -> p.a
      [] p.k \in FileKinds -> filepath(i, p)
      [] p.k = "Format" -> format(p.tmpl, YieldSeq(p.args, i - GuardCount(<< p >>) + 1))
      [] OTHER -> "None"
YieldSeq(ps, first) ==
    IF ps = << >> THEN << >>
    ELSE << Yield(Head(ps), first + GuardCount(<< Head(ps) >>) - 1) >>
         \o YieldSeq(Tail(ps), first + GuardCount(<< Head(ps) >>))

WorkerFrame == <<tree, held, nextId, localFs, streams, cpc, todo, frames, built, exc, ret, queue,
                 store0, local0, resp>>

\* DeserializeAndUnpackMiddle.wrapped: ret_code, exc = -1, None; ret_code is assigned only
\* when func returned, exc only when something raised
Result(code, e) == [code |-> code, exc |-> e]
\* except Exception: every error of decoding, of the guards and of the subprocess is one
ExceptionKinds ==
    {"DecodeError", "KeyError", "AttributeError", "FileNotFoundError", "OSError", "UploadError"}
Catches(e) == e \in ExceptionKinds
\* e was raised inside the try block: exc takes it, or it leaves the handler
Raises(code, e) ==
    IF Catches(e) THEN sres' = Result(code, e) /\ spc' = "exited"
    ELSE sres' = sres /\ spc' = "raised"
\* ret_code starts as the exit code of a clean run
RespondKeepsCode(r) == RunResponse(r.code, IF r.exc = "none" THEN NullExc ELSE r.exc)
Respond(r) == IF r.exc = "none" THEN RunResponse(r.code, NullExc) ELSE RunResponse(-1, r.exc)

\* tasks.run -> Server.run -> DeserializeAndUnpackMiddle.wrapped: decode the request,
\* then ProxyServerEndInvokeMiddle enters one guard per argument
DeserializeAndUnpack ==
    /\ spc = "idle" /\ wire # << >> /\ queue \in WorkerQueues
    /\ IF ~RequestDecodable(wire[1])
       THEN /\ Raises(0, "DecodeError")
            /\ UNCHANGED <<sguards, wtmp>>
       ELSE LET gs == SGuardsOf(DeserializeRequest(wire[1]))
                bad == FailingGuards(gs, store)
            IN IF bad # {}
               THEN /\ Raises(0, SEnterFails(gs[Min(bad)].p, store))
                    /\ UNCHANGED <<sguards, wtmp>>
               ELSE /\ sguards' = gs
                    /\ \E c \in FindOneChoices(store) :
                          wtmp' = [i \in 1..Len(gs) |->
                                     IF gs[i].p.k \in InFileKinds
                                     THEN DataOf(c, cloud_url(gs[i].p)) ELSE NoFile]
                    /\ spc' = "entered"
                    /\ sres' = sres
    /\ UNCHANGED <<store, wire, reply, ops, wput>>
    /\ UNCHANGED WorkerFrame

\* the output files the command may or may not create, and the sinks flex_open creates
OutIds(gs) == {i \in 1..Len(gs) : gs[i].p.k \in OutFileKinds /\ gs[i].pos \notin {"stdout", "stderr"}}
SinkIds(gs) == {i \in 1..Len(gs) : gs[i].p.k \in OutFileKinds /\ gs[i].pos \in {"stdout", "stderr"}}

\* Server.run.proxy: flex_open of the sinks, then subprocess.run
ServerProxy ==
    /\ spc = "entered"
    /\ \E created \in SUBSET OutIds(sguards), spawned \in BOOLEAN, code \in ExitCodes :
          /\ wtmp' = [i \in 1..Len(sguards) |->
                        IF i \in SinkIds(sguards) THEN Empty
                        ELSE IF spawned /\ i \in created THEN DataW
                        ELSE wtmp[i]]
          /\ sres' = IF spawned THEN Result(code, "none") ELSE Result(0, "OSError")
          /\ (~spawned => created = {} /\ code = 0)
    /\ spc' = "ran"
    /\ UNCHANGED <<store, wire, reply, sguards, ops, wput>>
    /\ UNCHANGED WorkerFrame

\* no exit uploads anything
UploadsNothing(gs, files, i, id) == << >>
\* the uploads of the exits, the last entered guard first, with the ids the store gives
RECURSIVE Uploads(_, _, _, _)
Uploads(gs, files, i, id) ==
    IF i = 0 THEN << >>
    ELSE IF gs[i].p.k \in OutFileKinds /\ files[i] # NoFile
         THEN << Entry(id, cloud_url(gs[i].p), files[i]) >> \o Uploads(gs, files, i - 1, id + 1)
         ELSE Uploads(gs, files, i - 1, id)

\* an upload takes the place of the entries its name had
ServerGuardsExitReplaces ==
    /\ spc = "ran"
    /\ LET ups == Uploads(sguards, wtmp, Len(sguards), nextId) IN
       \E failed \in 0..Len(ups) :
          LET done == SelectSeq(ups, LAMBDA e : failed = 0 \/ e # ups[failed])
              new == {done[i] : i \in 1..Len(done)}
          IN
          /\ store' = {e \in store : << e.host, e.path >> \notin Names(new)} \cup new
          /\ nextId' = nextId + Len(ups)
          /\ wput' = wput \cup new
          /\ LET e == IF failed = 0 THEN sres.exc ELSE "UploadError" IN
             IF e = "none" THEN sres' = sres /\ spc' = "exited" ELSE Raises(sres.code, e)
    /\ wtmp' = [i \in 1..Len(sguards) |-> NoFile]
    /\ UNCHANGED <<wire, reply, sguards, ops>>
    /\ UNCHANGED <<tree, held, localFs, streams, cpc, todo, frames, built, exc, ret, queue,
                   store0, local0, resp>>

\* the server guards exit in reverse order: OutFileGuard uploads the file if it exists,
\* the temp directories go away (failed: the upload that raised, 0 when none did)
ServerGuardsExit ==
    /\ spc = "ran"
    /\ LET ups == Uploads(sguards, wtmp, Len(sguards), nextId) IN
       \E failed \in 0..Len(ups) :
          LET done == SelectSeq(ups, LAMBDA e : failed = 0 \/ e # ups[failed]) IN
          /\ store' = store \cup {done[i] : i \in 1..Len(done)}
          /\ nextId' = nextId + Len(ups)
          /\ wput' = wput \cup {done[i] : i \in 1..Len(done)}
          /\ LET e == IF failed = 0 THEN sres.exc ELSE "UploadError" IN
             IF e = "none" THEN sres' = sres /\ spc' = "exited" ELSE Raises(sres.code, e)
    /\ wtmp' = [i \in 1..Len(sguards) |-> NoFile]
    /\ UNCHANGED <<wire, reply, sguards, ops>>
    /\ UNCHANGED <<tree, held, localFs, streams, cpc, todo, frames, built, exc, ret, queue,
                   store0, local0, resp>>

\* wrapped() returns the serialised RunResponse to the broker
ServerReturn ==
    /\ spc = "exited"
    /\ reply' = << SerializeResponse(Respond(sres)) >>
    /\ spc' = "done"
    /\ UNCHANGED <<store, wire, sguards, wtmp, sres, ops, wput>>
    /\ UNCHANGED WorkerFrame

\* ------------------------------------------------------------ the inputs
NonFileLeaves ==
    {StrParam("-c"), RawScalar("i10"), EnvParam("HOME"), EnvParam("PASSWORD"),
     RemoteEnvParam("HOME")}
FileLeaves ==
    {InLocalFileParam(PathA), InLocalFileParam(PathB),
     OutLocalFileParam(PathA), OutLocalFileParam(PathB),
     InCloudFileParam(PathA, LOCAL_HOSTNAME), InCloudFileParam(PathB, REMOTE),
     OutCloudFileParam(PathA, LOCAL_HOSTNAME), OutCloudFileParam(PathB, REMOTE)}
StreamLeaves ==
    {InStreamParam(PathA), InStreamParam(PathB), OutStreamParam(PathA), OutStreamParam(PathB)}
Leaves == NonFileLeaves \cup FileLeaves \cup StreamLeaves

SeqsUpTo(S, n) == UNION {[1..m -> S] : m \in 0..n}
RECURSIVE Params(_)
Params(d) ==
    IF d = 0 THEN Leaves
    ELSE Leaves \cup {FormatParam(Tmpl(Len(cs)), cs) : cs \in SeqsUpTo(Params(d - 1), MaxArgs) \ {<< >>}}
FormatCount(as) == Cardinality({i \in 1..Len(as) : as[i].k = "Format"})
ArgLists ==
    {as \in SeqsUpTo(Params(MaxDepth), MaxArgs) :
        LeafCountSeq(as) <= MaxArgs /\ FormatCount(as) <= MaxDepth}

\* positional arguments with every parameter variant and Format nesting, default command
ArgTrees ==
    {Tree(CmdNameParam("sh"), as, None, None, FALSE, << >>, None, "") : as \in ArgLists}
\* commands, queues and stdio sinks around a short argument list
Commands == {CmdNameParam("sh"), CmdNameParam("nope"), CmdPathParam("/bin/sh"),
             CmdPathParam("/bin/nope"), RawScalar("sC")}
Queues == {"", "celery"}
Sinks == {None, OutLocalFileParam(PathB), OutCloudFileParam(PathB, REMOTE), OutStreamParam(PathB)}
ErrSinks == {None, OutLocalFileParam(PathC)}
ShortArgs == {<< >>, << InLocalFileParam(PathA) >>, << OutLocalFileParam(PathA) >>}
SinkTrees ==
    {Tree(c, as, so, se, FALSE, << >>, None, q) :
        c \in Commands, q \in Queues, as \in ShortArgs, so \in Sinks, se \in ErrSinks}
\* an env mapping next to one positional argument
EnvValues == {RawScalar("i10"), StrParam("-c"), InLocalFileParam(PathA), EnvParam("PASSWORD"),
              RemoteEnvParam("PASSWORD"), OutLocalFileParam(PathB)}
EnvTrees ==
    {Tree(CmdNameParam("sh"), as, None, None, TRUE, env, None, "") :
        as \in ShortArgs, env \in SeqsUpTo(EnvValues, 1)}
Trees == ArgTrees \cup SinkTrees \cup EnvTrees

PreStores ==
    {{}, {Entry(1, << LOCAL_HOSTNAME, PathA >>, DataOld)},
     {Entry(1, << LOCAL_HOSTNAME, PathA >>, DataOld), Entry(2, << REMOTE, PathB >>, DataOld)}}

Init ==
    /\ tree \in Trees
    /\ held = TreeParams(tree)
    /\ store \in PreStores
    /\ nextId = 3
    /\ localFs = (PathA :> DataA) @@ (PathB :> NoFile) @@ (PathC :> NoFile)
    /\ streams = [p \in StreamLeaves |->
                    IF p.k = "InStream" THEN [pos |-> 0, data |-> << DataS >>]
                    ELSE [pos |-> 1, data |-> << DataOld >>]]
    /\ cpc = "call"
    /\ todo = << >>
    /\ frames = << << >> >>
    /\ built = << << >> >>
    /\ exc = NoExc
    /\ ret = << >>
    /\ queue = ""
    /\ wire = << >>
    /\ reply = << >>
    /\ spc = "idle"
    /\ sguards = << >>
    /\ wtmp = << >>
    /\ sres = Result(0, "none")
    /\ wput = {}
    /\ resp = << >>
    /\ store0 = store
    /\ local0 = localFs
    /\ ops = << >>

Next ==
    \/ ClientRun
    \/ WrapNone
    \/ AnyGuard
    \/ EnvGuard
    \/ RemoteEnvGuard
    \/ CmdNameGuard
    \/ CmdPathGuard
    \/ InStreamGuard
    \/ OutStreamGuard
    \/ InFileGuard
    \/ OutFileGuard
    \/ FormatGuard
    \/ FormatGuardYield
    \/ PackAndSerialize
    \/ SubmitFails
    \/ ProxyGet
    \/ WaitCancelled
    \/ PlainGuardExit
    \/ InStreamGuardExit
    \/ OutStreamGuardExit
    \/ InFileGuardExit
    \/ OutFileGuardExit
    \/ FormatGuardExit
    \/ InnerStackClosed
    \/ ClientReturn
    \/ DeserializeAndUnpack
    \/ ServerProxy
    \/ ServerGuardsExit
    \/ ServerReturn

Spec == Init /\ [][Next]_vars

\* ------------------------------------------ the worker's handler on its own
\* tasks.run is handed any string: what a client serialised, but also a string that is
\* not JSON and a parameter whose tag names no Param subclass
MalformedJson ==
    [json |-> FALSE, command |-> JNull, args |-> << >>, stdout |-> JNull, stderr |-> JNull,
     hasEnv |-> FALSE, env |-> << >>, cwd |-> JNull]
UnknownTag == [tag |-> "BogusParam", s |-> "x", hostname |-> "", tmpl |-> << >>, args |-> << >>]
WorkerLeaves ==
    {StrParam("-c"), EnvParam("HOME"), EnvParam("PASSWORD"), RemoteEnvParam("HOME"),
     InCloudFileParam(PathA, LOCAL_HOSTNAME), InCloudFileParam(PathB, REMOTE),
     OutCloudFileParam(PathA, LOCAL_HOSTNAME), OutCloudFileParam(PathB, REMOTE)}
WorkerJson ==
    {to_dict(p) : p \in WorkerLeaves} \cup {UnknownTag}
    \cup {to_dict(FormatParam(Tmpl(1), << p >>)) : p \in WorkerLeaves}
    \cup {[to_dict(FormatParam(Tmpl(1), << >>)) EXCEPT !.args = << UnknownTag >>]}
WorkerCommands ==
    {CmdNameParam("sh"), CmdNameParam("nope"), CmdPathParam("/bin/sh"), CmdPathParam("/bin/nope")}
WorkerRequests ==
    {MalformedJson} \cup
    {[json |-> TRUE, command |-> to_dict(c), args |-> as, stdout |-> to_dict(so),
      stderr |-> JNull, hasEnv |-> FALSE, env |-> << >>, cwd |-> JNull] :
        c \in WorkerCommands, as \in SeqsUpTo(WorkerJson, MaxArgs),
        so \in {None, OutCloudFileParam(PathB, REMOTE)}}

\* the handler is handed one of the strings of reqs
WorkerStart(reqs) ==
    /\ tree = Tree(CmdNameParam("sh"), << >>, None, None, FALSE, << >>, None, "")
    /\ held = TreeParams(tree)
    /\ store \in PreStores
    /\ nextId = 3
    /\ localFs = (PathA :> DataA) @@ (PathB :> NoFile) @@ (PathC :> NoFile)
    /\ streams = [p \in StreamLeaves |->
                    IF p.k = "InStream" THEN [pos |-> 0, data |-> << DataS >>]
                    ELSE [pos |-> 1, data |-> << DataOld >>]]
    /\ cpc = "wait"
    /\ todo = << >>
    /\ frames = << << >> >>
    /\ built = << << >> >>
    /\ exc = NoExc
    /\ ret = << >>
    /\ queue = "sh"
    /\ wire \in {<< m >> : m \in reqs}
    /\ reply = << >>
    /\ spc = "idle"
    /\ sguards = << >>
    /\ wtmp = << >>
    /\ sres = Result(0, "none")
    /\ wput = {}
    /\ resp = << >>
    /\ store0 = store
    /\ local0 = localFs
    /\ ops = << >>

InitWorker == WorkerStart(WorkerRequests)

NextWorker ==
    \/ DeserializeAndUnpack
    \/ ServerProxy
    \/ ServerGuardsExit
    \/ ServerReturn

SpecWorker == InitWorker /\ [][NextWorker]_vars

\* ------------------------------------------------------------ the claims
Returned == cpc = "done" /\ exc = NoExc
Raised == cpc = "done" /\ exc # NoExc

\* the blob name a file or stream parameter stands for
CanonicalName(p) ==
    IF p.k = "InStream" THEN cloud_url(as_cloud(ipath(p.a)))
    ELSE IF p.k = "OutStream" THEN cloud_url(as_cloud(opath(p.a)))
    ELSE cloud_url(p)
Transit(t) == {i \in 1..Len(AllParams(t)) : AllParams(t)[i].k \in FileKinds \cup StreamKinds}
Outputs(t) == {i \in Transit(t) : AllParams(t)[i].k \in {"OutLocal", "OutCloud", "OutStream"}}
DistinctNames(t) ==
    \A i, j \in Transit(t) :
        i # j => CanonicalName(AllParams(t)[i]) # CanonicalName(AllParams(t)[j])
OutputsFree(t, s) == \A i \in Outputs(t) : ~exists_on_cloud(s, CanonicalName(AllParams(t)[i]))
Writable(t) == \A i \in Outputs(t) : AllParams(t)[i].k = "OutLocal" => DirExists(AllParams(t)[i].a)
\* the names of the OutCloudFile parameters the caller passed
CallerSlots(t) == {CanonicalName(AllParams(t)[i]) : i \in {j \in Outputs(t) : AllParams(t)[j].k = "OutCloud"}}

C2_Kinds ==
    \/ exc.kind \in {"KeyError", "DispatchFailure", "Cancelled", "DecodeError"}
    \/ exc.kind = "ServerEndException" /\ wput = {}

\* C2 as stated, for the calls whose parameters name distinct free blobs, whose local
\* paths are writable and which hold no OutCloudFile of the caller: after a run that
\* raised one of the listed errors the store holds the same blob names as before the call.
C2_Original ==
    (Raised /\ C2_Kinds /\ DistinctNames(tree) /\ OutputsFree(tree, store0) /\ Writable(tree)
        /\ CallerSlots(tree) = {})
        => Names(store) = Names(store0)

\* ----------------------------------------------------------------- C3
Events(op) == SelectSeq(ops, LAMBDA e : e.op = op)
Ids(es) == [i \in 1..Len(es) |-> es[i].id]
Reverse(q) == [i \in 1..Len(q) |-> q[Len(q) + 1 - i]]

\* C3: the exits so far are the last entered guards in reverse order, none runs before
\* the dispatch is over, and when run is over every entered guard has exited once.
C3_ReverseExits ==
    LET ent == Ids(Events("enter")) ext == Ids(Events("exit")) IN
    /\ Len(ext) <= Len(ent)
    /\ ext = SubSeq(Reverse(ent), 1, Len(ext))
    /\ \A i, j \in 1..Len(ent) : i # j => ent[i] # ent[j]
    /\ (ext # << >> => cpc \in {"exit", "done"})
    /\ \A i, j \in 1..Len(ops) :
          (i < j /\ ops[i].op = "exit") => ops[j].op \notin {"enter", "submit", "put"}
    /\ (cpc = "done" => ext = Reverse(ent))

\* a cancelled call with a guard before a Format, the Format's child, and a guard after it
C3_Witness ==
    /\ cpc = "done" /\ exc.kind = "Cancelled"
    /\ Len(tree.args) = 2 /\ tree.args[1].k = "Format" /\ tree.args[2].k = "InLocal"
    /\ Ids(Events("exit")) = << 5, 4, 3, 1 >>

\* ----------------------------------------------------------------- C4
Uploaded(t) == {i \in Transit(t) : AllParams(t)[i].k \in {"InLocal", "InStream"}}

\* C4: no upload follows the submit, the request is on the wire only when every
\* InLocalFile and InStream has been uploaded, nothing follows the return or raise of
\* run, and by then every uploaded blob has had its deletion.
C4_Ordering ==
    /\ \A i, j \in 1..Len(ops) : (i < j /\ ops[i].op = "submit") => ops[j].op # "put"
    /\ (wire # << >> => Len(Events("put")) = Cardinality(Uploaded(tree)))
    /\ \A i \in 1..Len(ops) : ops[i].op \in {"return", "raise"} => i = Len(ops)
    /\ (cpc = "done" =>
          \A i \in 1..Len(ops) :
              ops[i].op = "put" => \E j \in (i + 1)..Len(ops) : ops[j].op = "del" /\ ops[j].id = ops[i].id)

\* a call that uploaded an input and a stream, was answered, downloaded an output
C4_Witness ==
    /\ Returned
    /\ Len(Events("put")) = 1 /\ Len(Events("get")) = 1 /\ Len(Events("del")) = 2

\* ----------------------------------------------------------------- C5
RECURSIVE JNodes(_)
JNodes(js) == IF js = << >> THEN {} ELSE {Head(js)} \cup JNodes(Head(js).args) \cup JNodes(Tail(js))
WireNodes(m) == JNodes(<< m.command >> \o m.args \o << m.stdout, m.stderr >> \o m.env \o << m.cwd >>)
SerialisedTags ==
    {"StrParam", "EnvParam", "RemoteEnvParam", "CmdNameParam", "CmdPathParam", "FormatParam",
     "InCloudFileParam", "OutCloudFileParam", "null"}
\* what a parameter of the caller has to be in the request
Sibling(p) ==
    IF p.k \in FileKinds THEN as_cloud(p)
    ELSE IF p.k = "InStream" THEN InCloudFileParam(p.a, LOCAL_HOSTNAME)
    ELSE OutCloudFileParam(p.a, LOCAL_HOSTNAME)

\* C5: the request on the wire holds only the serialisable variants and null at every
\* position and depth, and at the place of each file or stream parameter of the caller
\* it holds that parameter's cloud sibling.
C5_Serialisable ==
    wire # << >> =>
        /\ \A j \in WireNodes(wire[1]) : j.tag \in SerialisedTags
        /\ RequestDecodable(wire[1])
        /\ LET ps == RequestParams(DeserializeRequest(wire[1])) ts == AllParams(tree) IN
           /\ Len(ps) = Len(ts)
           /\ \A i \in Transit(tree) : ps[i] = Sibling(ts[i])
           /\ \A i \in 1..Len(ts) : ts[i].k = "Raw" => ps[i] = StrParam(str(ts[i].a))

\* a request with a Format holding a local input, next to a stream
C5_Witness ==
    /\ wire # << >>
    /\ Len(tree.args) = 2 /\ tree.args[1].k = "Format" /\ tree.args[2].k = "OutStream"
    /\ tree.args[1].args[1].k = "InLocal"

\* ----------------------------------------------------------------- C6
\* C6 as stated: when the response the client decoded carries an error, run raises
\* ServerEndException with return code -1 and returns no value.
C6_Original ==
    (cpc = "done" /\ resp # << >> /\ resp[1].exc # NullExc)
        => exc = ServerEndException(resp[1].exc) /\ ret = << >>

\* ----------------------------------------------------------------- C7
\* C7: whatever string the handler was given, nothing raised in it leaves it; what it
\* returns is a serialised RunResponse, with return code -1 and an error exactly when
\* something raised in the handler (a request that cannot be decoded counts), and with
\* a null error and the exit code otherwise.
C7_AlwaysResponds ==
    /\ spc # "raised"
    /\ (spc # "idle" /\ ~RequestDecodable(wire[1])) => sres.exc # "none"
    /\ spc = "done" =>
          /\ reply # << >> /\ reply[1].json
          /\ (reply[1].return_code = -1 /\ reply[1].exc # NullExc) <=> sres.exc # "none"
          /\ sres.exc = "none" =>
                (reply[1].exc = NullExc /\ reply[1].return_code = sres.code)

\* the subprocess exited with 3, then an upload of an output raised
C7_Witness ==
    /\ spc = "done" /\ sres = Result(3, "UploadError")
    /\ reply = << SerializeResponse(RunResponse(-1, "UploadError")) >>
    /\ \E j \in WireNodes(wire[1]) : j.tag = "FormatParam"

\* ----------------------------------------------------------------- C8
\* C8 as stated: when the subprocess exited with code c and nothing raised on the
\* worker, the response is {c, null}, and the run that decoded it returns c.
C8_Original ==
    (spc = "done" /\ sres.exc = "none")
        => /\ reply = << SerializeResponse(RunResponse(sres.code, NullExc)) >>
           /\ (cpc = "done" /\ resp # << >>) => (exc = NoExc /\ ret = << sres.code >>)

\* ----------------------------------------------------------------- C9
\* the request has just been submitted: no worker has taken it, the caller waits
AtSubmission == cpc = "wait" /\ spc = "idle"
Submitted == RequestParams(DeserializeRequest(wire[1]))

\* C9 as stated: at submission every InCloudFile of the request has a blob in the store.
C9_Original ==
    AtSubmission =>
        \A i \in 1..Len(Submitted) :
            Submitted[i].k = "InCloud" => exists_on_cloud(store, cloud_url(Submitted[i]))

\* ---------------------------------------------------------------- C10
\* C10 as stated: at submission no OutCloudFile of the request has a blob in the store,
\* and once the worker executed the request successfully every one has exactly one.
C10_Original ==
    /\ AtSubmission =>
          \A i \in 1..Len(Submitted) :
              Submitted[i].k = "OutCloud" => ~exists_on_cloud(store, cloud_url(Submitted[i]))
    /\ (spc = "done" /\ sres.exc = "none" /\ cpc = "wait") =>
          \A i \in 1..Len(Submitted) :
              Submitted[i].k = "OutCloud"
                  => Cardinality(Named(store, cloud_url(Submitted[i]))) = 1

\* ---------------------------------------------------------------- C11
\* the parameters of the caller's tree of one kind
OfKind(t, k) == {AllParams(t)[i] : i \in {j \in 1..Len(AllParams(t)) : AllParams(t)[j].k = k}}

\* C11 as stated: after a run that returned, what the worker put under the name of an
\* OutCloudFile of the caller is in the store as it was put, and at no time has an
\* entry that was in the store under the name of an InCloudFile of the caller left it.
C11_Original ==
    /\ Returned =>
          \A p \in OfKind(tree, "OutCloud") : Named(wput, cloud_url(p)) \subseteq store
    /\ \A p \in OfKind(tree, "InCloud") : Named(store0, cloud_url(p)) \subseteq store

\* ---------------------------------------------------------------- C12
\* the Env parameters of the tree whose variable the caller's environment lacks
UnsetEnvs(t) ==
    {i \in 1..Len(AllParams(t)) :
        AllParams(t)[i].k = "Env" /\ AllParams(t)[i].a \notin DOMAIN ClientEnv}
ValidCommand(t) ==
    t.command.k = "CmdName" \/ (t.command.k = "CmdPath" /\ t.queue # "")
\* a file or stream parameter is entered before the first such Env
TransitBefore(t) == \E i \in Transit(t) : \A j \in UnsetEnvs(t) : i < j

NotInPalette(t) == t.command.k = "CmdName" /\ t.command.a \notin DOMAIN CommandPalette

\* C13 as stated, in the form a finite run can refute: while such a call waits for
\* its answer the request is on a queue the worker consumes (otherwise nothing but an
\* interruption of the caller ends the wait), and when the call has ended after an
\* answer arrived it has raised ServerEndException with return code -1 and every blob
\* it uploaded has been deleted.
C13_Original ==
    NotInPalette(tree) =>
        /\ cpc = "wait" => queue \in WorkerQueues
        /\ (cpc = "done" /\ resp # << >>) =>
              /\ exc = ServerEndException("KeyError")
              /\ \A i \in 1..Len(Events("put")) :
                    \E j \in 1..Len(Events("del")) : Events("del")[j].id = Events("put")[i].id

\* ---------------------------------------------------------------- C14
\* what the reader of an InStream held when the guard read it (read_bytes from the start)
ReaderBytes(p) == streams[p].data[1]
InStreams(t) == {i \in Transit(t) : AllParams(t)[i].k = "InStream"}
\* the positions of the events of one kind in the client's history
Where(op) == {n \in 1..Len(ops) : ops[n].op = op}
\* the InStream at position i of the tree is staged before the submission, is in the
\* store with the reader's bytes while the call waits, is removed only after that, and
\* no blob of its name is in the store when the call has ended
Staged(t, i) ==
    LET name == CanonicalName(AllParams(t)[i]) IN
    /\ cpc = "wait" =>
          \E e \in Named(store, name) : e.data = ReaderBytes(AllParams(t)[i])
    /\ \A s \in Where("submit") :
          /\ \E n \in Where("put") : n < s /\ << ops[n].host, ops[n].path >> = name
          /\ \A n \in Where("del") : << ops[n].host, ops[n].path >> = name => s < n
    /\ cpc = "done" => ~exists_on_cloud(store, name)
\* the name of the parameter at i is the name of no other file or stream parameter of
\* the call and of no blob in the store before the call
NameUnused(t, i) ==
    /\ \A j \in Transit(t) \ {i} : CanonicalName(AllParams(t)[j]) # CanonicalName(AllParams(t)[i])
    /\ ~exists_on_cloud(store0, CanonicalName(AllParams(t)[i]))

OutStreamExits == AtExit({"OutStream"}) /\ frames' # frames
\* the slot of that guard holds one blob and the worker has put it
Populated(e) == Named(store, cloud_url(Last.out)) = {e} /\ e \in wput

Given == IF RequestDecodable(wire[1]) THEN SGuardsOf(DeserializeRequest(wire[1])) ELSE << >>
InCloudGuards == {i \in 1..Len(Given) : Given[i].p.k = "InCloud"}

\* C17: for every InCloudFile of a request the worker handles, while the command runs
\* the file at the path of its guard exists and holds the bytes of a blob of its name,
\* in a directory no other guard of the request uses; once the handler has returned
\* the file and the directory are gone, and every blob that was in the store under
\* that name when the request arrived is still there as it was.
C17_InCloud ==
    \A i \in InCloudGuards :
        /\ spc \in {"entered", "ran"} =>
              /\ wtmp[i] # NoFile
              /\ \E e \in Named(store0, cloud_url(Given[i].p)) : e.data = wtmp[i]
              /\ \A j \in 1..Len(Given) :
                    (j # i /\ Given[j].p.k \in FileKinds)
                        => workspace(j, Given[j].p) # workspace(i, Given[i].p)
        /\ spc = "done" =>
              /\ \A j \in 1..Len(wtmp) : wtmp[j] = NoFile
              /\ Named(store0, cloud_url(Given[i].p)) \subseteq store
\* the handler has answered a request with an InCloudFile whose command ran
C17_Witness ==
    /\ spc = "done" /\ sres.exc = "none"
    /\ InCloudGuards # {}
    /\ sguards = Given

\* ---------------------------------------------------------------- C18
\* the step in which the guards of the handler exit
GuardsExit == spc = "ran" /\ spc' # "ran"
OutCloudGuards == {i \in 1..Len(sguards) : sguards[i].p.k = "OutCloud"}
\* the guards of one name whose file exists when the guards exit
Created(n) == {i \in OutCloudGuards : cloud_url(sguards[i].p) = n /\ wtmp[i] # NoFile}

\* C18: when the guards of the handler exit and no upload raises, then for every
\* OutCloudFile of the request, the sinks included: if the file at its path exists, a
\* blob of its name with the bytes of that file is put and the file is gone; under a
\* name none of whose files exists no blob is put; and when no file exists at all the
\* outcome of the command is what the handler answers.
C18_OutCloud ==
    [][(GuardsExit /\ sres'.exc # "UploadError") =>
          /\ \A i \in OutCloudGuards :
                LET n == cloud_url(sguards[i].p) IN
                /\ wtmp[i] # NoFile =>
                      /\ \E e \in Named(store', n) \ store : e.data = wtmp[i]
                      /\ wtmp'[i] = NoFile
                /\ Cardinality(Named(store', n) \ store) = Cardinality(Created(n))
          /\ (\A i \in OutCloudGuards : wtmp[i] = NoFile) => (store' = store /\ sres' = sres)]_vars
\* the handler has answered a request with a sink that was uploaded and an output
\* file the command did not create
C18_Witness ==
    /\ spc = "done" /\ sres.exc = "none"
    /\ \E i, j \in OutCloudGuards :
          /\ cloud_url(sguards[i].p) \in Names(wput)
          /\ cloud_url(sguards[j].p) \notin Names(wput)

\* ---------------------------------------------------------------- C19
\* the parameters the client guards were entered for, in the order of their entering
ClientEntered == [n \in 1..Len(Events("enter")) |-> Tokens(tree)[Events("enter")[n].id].p]
\* what the guard of a parameter of the caller puts into the request
Image(p) ==
    CASE p.k \in FileKinds \cup StreamKinds -> Sibling(p)
      [] p.k = "Raw" -> StrParam(str(p.a))
      [] p.k = "Env" -> StrParam(ClientEnv[p.a])
      [] p.k = "RemoteEnv" -> EnvParam(p.a)
      [] OTHER -> p
PosRank == [command |-> 1, args |-> 2, stdout |-> 3, stderr |-> 4, env |-> 5, cwd |-> 6]
\* the guard number of child j of the Format whose guard is number i
ChildGuard(p, i, j) == i - GuardCount(<< p >>) + GuardCount(SubSeq(p.args, 1, j))
\* tmpl with every placeholder replaced by the string of the child of that name
RECURSIVE Replaced(_, _, _)
Replaced(tmpl, p, i) ==
    IF tmpl = << >> THEN ""
    ELSE LET j == CHOOSE j \in 1..Len(p.args) : ArgKeys[j] = Head(tmpl).key IN
         Head(tmpl).lit \o Yield(p.args[j], ChildGuard(p, i, j)) \o Replaced(Tail(tmpl), p, i)

\* C19: the guards the server has entered are, one for one and in the same order, the
\* guards the client entered (the command, the arguments with the children of a Format
\* before the Format yields, stdout, stderr, the env values, cwd); a Format yields its
\* template with every placeholder replaced by what the child of that name yields, and
\* a file child yields the path of its own temp file on the worker.
C19_Materialised ==
    sguards # << >> =>
        /\ Len(sguards) = Len(ClientEntered)
        /\ \A i \in 1..Len(sguards) :
              /\ sguards[i].p.k = "Format" =>
                    /\ ClientEntered[i].k = "Format"
                    /\ Len(sguards[i].p.args) = Len(ClientEntered[i].args)
              /\ sguards[i].p.k # "Format" => sguards[i].p = Image(ClientEntered[i])
              /\ \A j \in 1..Len(sguards) :
                    i < j => PosRank[sguards[i].pos] <= PosRank[sguards[j].pos]
        /\ \A i \in 1..Len(sguards) :
              LET p == sguards[i].p IN
              p.k = "Format" =>
                  /\ Yield(p, i) = Replaced(p.tmpl, p, i)
                  /\ \A j \in 1..Len(p.args) :
                        p.args[j].k \in FileKinds =>
                            /\ sguards[ChildGuard(p, i, j)].p = p.args[j]
                            /\ Yield(p.args[j], ChildGuard(p, i, j))
                                 = filepath(ChildGuard(p, i, j), p.args[j])
\* the server has entered the guards of a request whose Format has two children, a
\* file and a string, named in the template in the other order
C19_Witness ==
    /\ spc = "entered"
    /\ \E i \in 1..Len(sguards) :
          /\ sguards[i].p.k = "Format" /\ Len(sguards[i].p.args) = 2
          /\ sguards[i].p.args[1].k = "InCloud" /\ sguards[i].p.args[2].k = "Str"
          /\ Yield(sguards[i].p, i) = "--c-/tmp/cli2/a"

\* ------------------------------------------------ the argument walk on its own
\* wrap_args_rec is handed any nesting of dict, list, tuple and set around the leaves;
\* a container is its kind, its keys (a dict's, in order) and its items in order
Box(c, keys, items) == [c |-> c, keys |-> keys, items |-> items]
IsBox(v) == "c" \in DOMAIN v
Scalars == {RawScalar("sC"), RawScalar("i10"), RawScalar("f05"), RawScalar("bFalse")}
WrapLeaves == Scalars \cup {StrParam("-c"), None}
DictKeys == {<< >>, << "k1" >>, << "k1", "k2" >>, << "k2", "k1" >>}
\* a set the caller can build holds hashable things only: scalars and None, each once
SetItems == {q \in SeqsUpTo(Scalars \cup {None}, MaxArgs) : \A i, j \in 1..Len(q) : i # j => q[i] # q[j]}
FlatBoxes ==
    {Box(c, << >>, q) : c \in {"list", "tuple"}, q \in SeqsUpTo(WrapLeaves, MaxArgs)}
    \cup {Box("dict", kq[1], kq[2]) :
             kq \in {x \in DictKeys \X SeqsUpTo(WrapLeaves, MaxArgs) : Len(x[1]) = Len(x[2])}}
    \cup {Box("set", << >>, q) : q \in SetItems}
\* the positional arguments of wrapped(): a tuple of leaves and containers
WrapInputs ==
    FlatBoxes \cup {Box("tuple", << >>, << b >>) : b \in FlatBoxes}
    \cup {Box("dict", << "args" >>, << b >>) : b \in FlatBoxes}

\* the client AnyGuard: a StrParam as it is, a scalar as StrParam(str(x))
AnyGuardYields(p) == IF p.k = "Str" THEN p ELSE StrParam(str(p.a))
\* wrap(arg): None as it is, a container rebuilt by its own class from the wrapped
\* items, anything else through its guard
RECURSIVE wrap_args_rec(_)
wrap_args_rec(v) ==
    IF IsBox(v) THEN Box(v.c, v.keys, [i \in 1..Len(v.items) |-> wrap_args_rec(v.items[i])])
    ELSE IF v.k = "None" THEN v
    ELSE AnyGuardYields(v)
\* dataclasses with eq and without frozen have __hash__ = None: no Param can be put
\* in a set, and no list, dict or set can
RECURSIVE Unhashable(_)
Unhashable(w) ==
    IF IsBox(w) THEN w.c # "tuple" \/ \E i \in 1..Len(w.items) : Unhashable(w.items[i])
    ELSE w.k # "None"
\* cls(wrap(v) for v in arg) of a set raises TypeError on the first unhashable item
RECURSIVE WrapRaises(_)
WrapRaises(v) ==
    /\ IsBox(v)
    /\ \/ \E i \in 1..Len(v.items) : WrapRaises(v.items[i])
       \/ v.c = "set" /\ \E i \in 1..Len(v.items) : Unhashable(wrap_args_rec(v.items[i]))

\* one call of wrap_args_rec on the caller's arguments
WrapArgsRec ==
    /\ cpc = "call"
    /\ IF WrapRaises(tree)
       THEN exc' = Exc("TypeError", 0) /\ built' = built
       ELSE exc' = exc /\ built' = wrap_args_rec(tree)
    /\ cpc' = "done"
    /\ UNCHANGED <<tree, held, store, nextId, localFs, streams, todo, frames, ret, queue, resp,
                   store0, local0, ops>>
    /\ UNCHANGED ServerSide

InitWrap ==
    /\ tree \in WrapInputs
    /\ held = << >>
    /\ store = {}
    /\ nextId = 3
    /\ localFs = (PathA :> DataA) @@ (PathB :> NoFile) @@ (PathC :> NoFile)
    /\ streams = [p \in StreamLeaves |->
                    IF p.k = "InStream" THEN [pos |-> 0, data |-> << DataS >>]
                    ELSE [pos |-> 1, data |-> << DataOld >>]]
    /\ cpc = "call"
    /\ todo = << >>
    /\ frames = << << >> >>
    /\ built = << >>
    /\ exc = NoExc
    /\ ret = << >>
    /\ queue = ""
    /\ wire = << >>
    /\ reply = << >>
    /\ spc = "idle"
    /\ sguards = << >>
    /\ wtmp = << >>
    /\ sres = Result(0, "none")
    /\ wput = {}
    /\ resp = << >>
    /\ store0 = store
    /\ local0 = localFs
    /\ ops = << >>

NextWrap == WrapArgsRec

SpecWrap == InitWrap /\ [][NextWrap]_vars

\* ---------------------------------------------------------------- C20
\* w is what the claim says the pipeline returns for v
RECURSIVE WrappedAs(_, _)
WrappedAs(v, w) ==
    IF IsBox(v)
    THEN /\ IsBox(w) /\ w.c = v.c
         /\ v.c = "dict" => w.keys = v.keys
         /\ v.c # "set" =>
               /\ Len(w.items) = Len(v.items)
               /\ \A i \in 1..Len(v.items) : WrappedAs(v.items[i], w.items[i])
    ELSE /\ ~IsBox(w)
         /\ v.k = "None" => w = None
         /\ v.k = "Raw" => w = StrParam(str(v.a))

\* C20 as stated: the walk ends without an error, and what it returns has Str(str(x))
\* for every scalar x, null for null, and for every mapping, sequence and set a
\* container of the same kind, with the same keys in the same order for a mapping and
\* the same length and element order for a sequence.
C20_Original == cpc = "done" => (exc = NoExc /\ WrappedAs(tree, built))

\* ---------------------------------------------------------------- C21
EnvIn(gs) == {i \in 1..Len(gs) : gs[i].p.k = "Env"}
EnvGuards == EnvIn(Given)
\* the Env guards whose variable the worker's environment lacks
UnsetIn(gs) == {i \in 1..Len(gs) : gs[i].p.k = "Env" /\ gs[i].p.a \notin DOMAIN WorkerEnv}
UnsetGuards == UnsetIn(Given)

EnvKeys == << "PASSWORD", "HOME" >>
\* requests that come with an env mapping, and Env parameters in args, stdout, stderr
\* and inside a Format
EnvLeaves == {StrParam("-c"), EnvParam("HOME"), EnvParam("PASSWORD")}
EnvJson ==
    {to_dict(p) : p \in EnvLeaves}
    \cup {to_dict(FormatParam(Tmpl(1), << p >>)) : p \in EnvLeaves \ {StrParam("-c")}}
EnvMappings ==
    {<< >>, << StrParam("fake password") >>, << StrParam("fake password"), StrParam("/fake") >>}
EnvRequests ==
    {[json |-> TRUE, command |-> to_dict(CmdNameParam("sh")), args |-> as,
      stdout |-> to_dict(so), stderr |-> to_dict(se), hasEnv |-> (e # << >>),
      env |-> to_dict_seq(e), cwd |-> JNull] :
        as \in SeqsUpTo(EnvJson, MaxArgs), so \in {None, EnvParam("PASSWORD")},
        se \in {None, FormatParam(Tmpl(1), << EnvParam("PASSWORD") >>)}, e \in EnvMappings}
InitWorkerEnv == WorkerStart(EnvRequests)
SpecWorkerEnv == InitWorkerEnv /\ [][NextWorker]_vars

\* the env mapping of the request the handler was given
PassedEnv == IF RequestDecodable(wire[1]) THEN DeserializeRequest(wire[1]).env ELSE << >>
\* the Env guards outside the env mapping whose name is entry j of the mapping
Passed(j) ==
    {i \in EnvGuards : Given[i].pos # "env" /\ Given[i].p.a = EnvKeys[j]
                                            /\ PassedEnv[j].k = "Str"}

\* C22: on the worker, an Env(name) in args, in stdout, in stderr or inside a Format is
\* materialised as the value the env mapping of the same call gives for name: when
\* the guards are entered it yields that value, and when the mapping gives every Env
\* of the request a value and the command is in the palette no guard raises KeyError.
C22_Original ==
    /\ spc \in {"entered", "ran"} =>
          \A j \in 1..Len(PassedEnv) : \A i \in Passed(j) :
              Yield(sguards[i].p, i) = PassedEnv[j].a
    /\ (/\ spc \in {"exited", "done"}
        /\ RequestDecodable(wire[1])
        /\ SEnterFails(DeserializeRequest(wire[1]).command, store) = "none"
        /\ \A i \in EnvGuards : \E j \in 1..Len(PassedEnv) : i \in Passed(j))
       => sres.exc # "KeyError"

\* ---------------------------------------------------------------- C23
RemoteEnvGuards == {i \in 1..Len(Given) : Given[i].p.k = "RemoteEnv"}
\* the parameter whose lookup a RemoteEnv is said to share
AsEnv(p) == IF p.k = "RemoteEnv" THEN EnvParam(p.a) ELSE p

\* C23: a RemoteEnv(name) that reaches the worker inside a decoded request is
\* materialised by the environment lookup of Env(name): when the guards of the request
\* would all enter with Env(name) in its place, they all enter with the RemoteEnv too,
\* and it yields the value of name in the worker's environment.
C23_Original ==
    (/\ spc # "idle"
     /\ RemoteEnvGuards # {}
     /\ \A i \in 1..Len(Given) : SEnterFails(AsEnv(Given[i].p), store0) = "none")
    => /\ sguards = Given
       /\ \A i \in RemoteEnvGuards : Yield(sguards[i].p, i) = WorkerEnv[Given[i].p.a]

\* ---------------------------------------------------------------- C24
\* the call is interrupted while the guard of an InStream or of a local input file is
\* being entered: the exception arrives inside fs.put, where the id of the new entry is
\* already taken and the entry is not yet stored, or after fs.put has returned and
\* before the try block of the guard is entered; the guard is not on the ExitStack,
\* the guards entered before it unwind
UploadCancelled ==
    /\ AtLeaf({"InStream", "InLocal"})
    /\ Cur.k = "InLocal" => localFs[Cur.a] # NoFile
    /\ \E stored \in BOOLEAN :
          LET param == IF Cur.k = "InStream" THEN as_cloud(ipath(Cur.a)) ELSE as_cloud(Cur)
              body == IF Cur.k = "InStream" THEN read_bytes(streams[Cur]) ELSE localFs[Cur.a]
          IN /\ store' = IF stored THEN fs_put(store, nextId, cloud_url(param), body) ELSE store
             /\ ops' = IF stored THEN Append(ops, Ev("put", "client", TokId, cloud_url(param)))
                       ELSE ops
    /\ nextId' = nextId + 1
    /\ streams' = IF Cur.k = "InStream" THEN [streams EXCEPT ![Cur] = AfterRead(@)] ELSE streams
    /\ EnterRaised("Cancelled")
    /\ UNCHANGED <<tree, held, localFs, store0, local0, ret, queue, resp>>
    /\ UNCHANGED ServerSide

\* a call that may be interrupted in the enter of an upload, up to the submission
NextCancel ==
    \/ ClientRun
    \/ WrapNone
    \/ AnyGuard
    \/ EnvGuard
    \/ RemoteEnvGuard
    \/ CmdNameGuard
    \/ CmdPathGuard
    \/ InStreamGuard
    \/ OutStreamGuard
    \/ InFileGuard
    \/ OutFileGuard
    \/ FormatGuard
    \/ FormatGuardYield
    \/ UploadCancelled
    \/ PlainGuardExit
    \/ InStreamGuardExit
    \/ OutStreamGuardExit
    \/ InFileGuardExit
    \/ OutFileGuardExit
    \/ FormatGuardExit
    \/ InnerStackClosed
    \/ ClientReturn

SpecCancel == Init /\ [][NextCancel]_vars

\* C24: when a client call was cancelled during the enter of an InLocalFile or InStream
\* guard, before anything was submitted, then once the call has exited the entry that
\* upload was creating is not in the store.
C24_Original ==
    (cpc = "done" /\ exc = Exc("Cancelled", 0) /\ wire = << >>)
        => \A e \in store : e.id # nextId - 1

\* ------------------------------------------ the store operations on their own
\* upload, download and remove_from_cloud of file parameters called one after the other
\* on a store, as the tests of the parameters and the guards call them; ops is the
\* sequence of the calls made, ret what the last call returned, exc what it raised
MaxOps == 3
\* the variables no call of a parameter's method touches
Parked == <<held, localFs, streams, todo, frames, queue, wire, reply, spc, sguards,
            wtmp, sres, wput, resp, local0>>
InitParked ==
    /\ held = << >>
    /\ localFs = (PathA :> DataA) @@ (PathB :> NoFile) @@ (PathC :> NoFile)
    /\ streams = [p \in StreamLeaves |->
                    IF p.k = "InStream" THEN [pos |-> 0, data |-> << DataS >>]
                    ELSE [pos |-> 1, data |-> << DataOld >>]]
    /\ todo = << >>
    /\ frames = << << >> >>
    /\ queue = ""
    /\ wire = << >>
    /\ reply = << >>
    /\ spc = "idle"
    /\ sguards = << >>
    /\ wtmp = << >>
    /\ sres = Result(0, "none")
    /\ wput = {}
    /\ resp = << >>
    /\ local0 = localFs

StoreParams ==
    {InLocalFileParam(PathA), InCloudFileParam(PathA, LOCAL_HOSTNAME),
     OutCloudFileParam(PathB, REMOTE)}
Bodies == {DataA, DataW}

\* FileParamBase.upload(fs, body=c): fs.put adds an entry under the name of p
upload(p, c) ==
    /\ Len(ops) < MaxOps
    /\ store' = fs_put(store, nextId, cloud_url(p), c)
    /\ nextId' = nextId + 1
    /\ ret' = << nextId >>
    /\ exc' = NoExc
    /\ ops' = Append(ops, Ev("put", "param", nextId, cloud_url(p)))
    /\ UNCHANGED <<cpc, store0, tree, built>> /\ UNCHANGED Parked

\* fs.find_one(dict(filename=name)): one of the entries of that name, no order asked for
find_one(s, name) == Named(s, name)

\* FileParamBase.download(fs): find_on_cloud raises when no entry has the name of p,
\* else the id and the bytes of the entry found are returned
download(p) ==
    /\ Len(ops) < MaxOps
    /\ IF find_one(store, cloud_url(p)) = {}
       THEN ret' = << >> /\ exc' = Exc("FileNotFoundError", 0)
       ELSE \E e \in find_one(store, cloud_url(p)) : ret' = << e.id, e.data >> /\ exc' = NoExc
    /\ ops' = Append(ops, Ev("get", "param", 0, cloud_url(p)))
    /\ UNCHANGED <<store, nextId, cpc, store0, tree, built>> /\ UNCHANGED Parked

\* FileParamBase.remove_from_cloud(fs): the entry found is deleted, its id returned
remove(p) ==
    /\ Len(ops) < MaxOps
    /\ IF find_one(store, cloud_url(p)) = {}
       THEN store' = store /\ ret' = << >>
       ELSE \E e \in find_one(store, cloud_url(p)) :
               store' = fs_delete(store, e.id) /\ ret' = << e.id >>
    /\ exc' = NoExc
    /\ ops' = Append(ops, Ev("del", "param", 0, cloud_url(p)))
    /\ UNCHANGED <<nextId, cpc, store0, tree, built>> /\ UNCHANGED Parked

Upload == \E p \in StoreParams, c \in Bodies : upload(p, c)
Download == \E p \in StoreParams : download(p)
Remove == \E p \in StoreParams : remove(p)

InitStore ==
    /\ InitParked
    /\ tree = Tree(CmdNameParam("sh"), << >>, None, None, FALSE, << >>, None, "")
    /\ built = << << >> >>
    /\ store \in PreStores
    /\ nextId = 3
    /\ cpc = "call"
    /\ exc = NoExc
    /\ ret = << >>
    /\ store0 = store
    /\ ops = << >>
NextStore ==
    \/ Upload
    \/ Download
    \/ Remove
SpecStore == InitStore /\ [][NextStore]_vars

\* ---------------------------------------------------------------- C25
\* the step of a removal by the name n
Removal(n) == ops' # ops /\ ops'[Len(ops')] = Ev("del", "param", 0, n)

\* C25: after a removal by canonical name no entry of that name is in the store,
\* whether zero, one or several entries had the name before, and the removal does not
\* raise; with zero entries before, the store is left as it was.
C25_Original ==
    [][\A n \in {cloud_url(p) : p \in StoreParams} :
          Removal(n) =>
              /\ Named(store', n) = {}
              /\ exc' = NoExc
              /\ Named(store, n) = {} => store' = store]_vars

\* ---------------------------------------------------------------- C26
\* C26: a download of p made right after an upload of c under p returns exactly c,
\* whatever the store held before, an older entry of the name of p included.
C26_Original ==
    \A i \in 2..Len(ops) :
        (/\ i = Len(ops)
         /\ ops[i].op = "get" /\ ops[i - 1].op = "put"
         /\ <<ops[i].host, ops[i].path>> = <<ops[i - 1].host, ops[i - 1].path>>)
        => /\ exc = NoExc
           /\ \E e \in store : e.id = ops[i - 1].id /\ ret = << ret[1], e.data >>

\* ---------------------------------------------------------------- C27
\* the variants an envelope may carry, the null of an absent stdout, stderr or cwd included
SerialisableKinds == {"None", "Str", "Env", "CmdName", "CmdPath", "Format", "InCloud", "OutCloud"}
\* the request PackAndSerializeMiddle built from the wrapped arguments
Packed == RunRequest(tree, built[1])
Serialisable(r) == \A i \in 1..Len(RequestParams(r)) : RequestParams(r)[i].k \in SerialisableKinds

MaxUrl == 5
UrlChars == {"@", ":", "/", "a"}
\* gethostname() of the caller
LocalHostChars == << "a" >>

\* pathlib.Path(s).as_posix(): repeated and trailing slashes go, exactly two leading
\* slashes stay, the empty path is "."
RECURSIVE Squeeze(_)
Squeeze(s) ==
    IF Len(s) < 2 THEN s
    ELSE IF s[1] = "/" /\ s[2] = "/" THEN Squeeze(Tail(s))
    ELSE << s[1] >> \o Squeeze(Tail(s))
StripEnd(s) == IF Len(s) > 1 /\ s[Len(s)] = "/" THEN SubSeq(s, 1, Len(s) - 1) ELSE s
TwoSlashes(s) == Len(s) >= 2 /\ s[1] = "/" /\ s[2] = "/" /\ (Len(s) = 2 \/ s[3] # "/")
Path(s) ==
    IF s = << >> THEN << "." >>
    ELSE IF TwoSlashes(s) THEN << "/" >> \o StripEnd(Squeeze(s))
    ELSE StripEnd(Squeeze(s))

\* FileParamBase.__post_init__: filepath becomes a Path; a local parameter is bound to
\* the local hostname
FileParam(k, fpath, hostname) == Leaf(k, Path(fpath), hostname)
\* FileParamBase.cloud_url: CLOUD_URL_PATTERN.format(hostname, filepath.as_posix())
CloudUrl(p) == << "@" >> \o p.h \o << ":" >> \o p.a

\* the places of u where the ':' of the pattern can stand: a hostname and a path of at
\* least one character on either side
Colons(u) == {i \in 3..(Len(u) - 1) : u[i] = ":"}
\* the hostname runs up to the last ':' of the reference
parseGreedy(u) ==
    IF u = << >> \/ u[1] # "@" \/ Colons(u) = {} THEN << >>
    ELSE LET i == CHOOSE x \in Colons(u) : \A y \in Colons(u) : y <= x
         IN << SubSeq(u, 2, i - 1), SubSeq(u, i + 1, Len(u)) >>
\* parse.parse(CLOUD_URL_PATTERN, u): the whole of u against @{hostname}:{abspath}, each
\* field the shortest run of one character or more: << hostname, abspath >>, or << >>
\* when u does not match
parse(u) ==
    IF u = << >> \/ u[1] # "@" \/ Colons(u) = {} THEN << >>
    ELSE LET i == Min(Colons(u))
         IN << SubSeq(u, 2, i - 1), SubSeq(u, i + 1, Len(u)) >>

\* _file(url, is_input): a path object and a string that is no cloud url give the local
\* variant, a cloud url the cloud variant of its hostname and path
_file(url, input) ==
    IF url.pathlike \/ parse(url.s) = << >>
    THEN FileParam(IF input THEN "InLocal" ELSE "OutLocal", url.s, LocalHostChars)
    ELSE FileParam(IF input THEN "InCloud" ELSE "OutCloud", parse(url.s)[2], parse(url.s)[1])

Ref(pathlike, s) == [via |-> "ref", pathlike |-> pathlike, s |-> s, k |-> "", hostname |-> << >>]
Ctor(k, s, h) == [via |-> "ctor", pathlike |-> FALSE, s |-> s, k |-> k, hostname |-> h]
Strings == SeqsUpTo(UrlChars, MaxUrl)
\* what the caller passes: a string or a path object, or the fields of a cloud parameter
FileInputs ==
    {Ref(b, s) : b \in BOOLEAN, s \in Strings}
    \cup {Ctor(k, x[1], x[2]) : k \in CloudKinds,
                                x \in {y \in Strings \X Strings : Len(y[1]) + Len(y[2]) + 2 <= MaxUrl}}

Called(name, p) ==
    /\ cpc = "call" /\ Len(ops) < MaxOps
    /\ built' = Append(built, p)
    /\ ops' = Append(ops, name)
    /\ UNCHANGED <<tree, store, nextId, cpc, exc, ret, store0>>
    /\ UNCHANGED Parked

\* Param.ipath(ref), Param.opath(ref)
Ipath == tree.via = "ref" /\ built = << >> /\ Called("ipath", _file(tree, TRUE))
Opath == tree.via = "ref" /\ built = << >> /\ Called("opath", _file(tree, FALSE))
\* InCloudFileParam(filepath, hostname), OutCloudFileParam(filepath, hostname)
Construct ==
    tree.via = "ctor" /\ built = << >> /\ Called("new", FileParam(tree.k, tree.s, tree.hostname))
\* p.as_cloud() of the parameter returned last
AsCloud == built # << >> /\ Called("as_cloud", as_cloud(built[Len(built)]))
\* Param.ipath / Param.opath of the canonical name of the parameter returned last
FromUrl ==
    /\ built # << >>
    /\ LET p == built[Len(built)] IN Called("from_url", _file(Ref(FALSE, CloudUrl(p)), is_input(p)))

InitParam ==
    /\ InitParked
    /\ tree \in FileInputs
    /\ built = << >>
    /\ store = {}
    /\ nextId = 3
    /\ cpc = "call"
    /\ exc = NoExc
    /\ ret = << >>
    /\ store0 = store
    /\ ops = << >>
NextParam ==
    \/ Ipath
    \/ Opath
    \/ Construct
    \/ AsCloud
    \/ FromUrl
SpecParam == InitParam /\ [][NextParam]_vars

\* ---------------------------------------------------------------- C28
\* C28: for every file parameter p, local or cloud, input or output, as_cloud(p) is the
\* cloud variant of the direction of p with the path, the hostname and the canonical
\* name of p, and as_cloud of it is itself.
C28_AsCloud ==
    \A i \in 2..Len(built) :
        ops[i] = "as_cloud" =>
            LET p == built[i - 1]
                c == built[i]
            IN /\ c.k = (IF is_input(p) THEN "InCloud" ELSE "OutCloud")
               /\ c.a = p.a /\ c.h = p.h
               /\ CloudUrl(c) = CloudUrl(p)
               /\ as_cloud(c) = c
\* as_cloud was called twice on what opath made of a plain path
C28_Witness ==
    /\ ops = << "opath", "as_cloud", "as_cloud" >>
    /\ built[1].k = "OutLocal" /\ built[1].a = << "/", "a" >>
    /\ built[2].k = "OutCloud" /\ built[3] = built[2]

\* ---------------------------------------------------------------- C29
\* every way of reading s as @h:q with a hostname h and a path q of at least one character
Forms(s) ==
    IF s = << >> \/ s[1] # "@" THEN {}
    ELSE {<< SubSeq(s, 2, i - 1), SubSeq(s, i + 1, Len(s)) >> : i \in Colons(s)}
HasColon(s) == \E j \in 1..Len(s) : s[j] = ":"
\* the readings whose hostname holds no ':'
PlainForms(s) == {x \in Forms(s) : ~HasColon(x[1])}
CloudOf(name) == IF name = "ipath" THEN "InCloud" ELSE "OutCloud"
LocalOf(name) == IF name = "ipath" THEN "InLocal" ELSE "OutLocal"
Made == ops # << >> /\ ops[1] \in {"ipath", "opath"}

\* C29: Param.ipath and Param.opath build the cloud variant with hostname h and path q
\* from every string of the form @h:q (h and q not empty), and the local variant bound to the local hostname
\* from every other string and from every path object; and for a cloud parameter p,
\* ipath / opath of the canonical name of p is a parameter equal to p.
C29_Original ==
    /\ Made =>
          /\ ~tree.pathlike =>
                \A x \in Forms(tree.s) : built[1] = Leaf(CloudOf(ops[1]), Path(x[2]), x[1])
          /\ (tree.pathlike \/ Forms(tree.s) = {}) =>
                built[1] = Leaf(LocalOf(ops[1]), Path(tree.s), LocalHostChars)
    /\ \A i \in 2..Len(built) :
          (ops[i] = "from_url" /\ is_cloud(built[i - 1])) => built[i] = built[i - 1]
\* C29, amended: the cloud variant with hostname h and path q is built from every string
\* @h:q whose h and q are not empty and whose h holds no ':'; the local variant bound to
\* the local hostname is built from every path object and from every string that is
\* not @h:q for any h and q that are not empty; and for a cloud parameter p whose
\* hostname is not empty and holds no ':', ipath / opath of the canonical name of p is
\* a parameter equal to p.
C29_Amended ==
    /\ Made =>
          /\ ~tree.pathlike =>
                \A x \in PlainForms(tree.s) : built[1] = Leaf(CloudOf(ops[1]), Path(x[2]), x[1])
          /\ (tree.pathlike \/ Forms(tree.s) = {}) =>
                built[1] = Leaf(LocalOf(ops[1]), Path(tree.s), LocalHostChars)
    /\ \A i \in 2..Len(built) :
          (/\ ops[i] = "from_url" /\ is_cloud(built[i - 1])
           /\ built[i - 1].h # << >> /\ ~HasColon(built[i - 1].h))
          => built[i] = built[i - 1]
\* ipath of "@a::a" made the cloud file of host "a" and path ":a", and ipath of its
\* canonical name made it again
C29_Witness ==
    /\ ops = << "ipath", "from_url" >>
    /\ tree = Ref(FALSE, << "@", "a", ":", ":", "a" >>)
    /\ built[1] = Leaf("InCloud", << ":", "a" >>, << "a" >>)
    /\ built[2] = built[1]

\* ------------------------------------------------ the Singleton on its own
\* one subclass A of Singleton used by the threads of one process: tree holds the class
\* attributes (_instance: the id of an object, 0 for None; mutex: the thread that holds
\* _instantiate_mutex, 0 when it is free), store the objects made so far, cpc where each
\* thread is, ops the calls that have returned or raised, in that order
Threads == {1, 2}
InitArgs == {<< 10, 20 >>, << 1, 2 >>}
Uninit == << >>
Obj(id, args) == [id |-> id, init |-> args]
Idle == [at |-> "idle", args |-> Uninit, obj |-> 0]
Did(op, t, args, raised, obj) == [op |-> op, t |-> t, args |-> args, raised |-> raised, obj |-> obj]
SingletonFrame == <<built, exc, ret, store0>>

\* instantiate: with cls._instantiate_mutex is entered (a thread waits while it is held)
Acquire(t, args) ==
    /\ cpc[t] = Idle /\ Len(ops) < MaxOps
    /\ tree.mutex = 0
    /\ tree' = [tree EXCEPT !.mutex = t]
    /\ cpc' = [cpc EXCEPT ![t] = [at |-> "new", args |-> args, obj |-> 0]]
    /\ UNCHANGED <<store, nextId, ops>>
    /\ UNCHANGED SingletonFrame /\ UNCHANGED Parked

\* instantiate: self = cls.__new__(cls); the mutex is locked, so the object is made and
\* cls._instance is set to it
New(t) ==
    /\ cpc[t].at = "new"
    /\ store' = store \cup {Obj(nextId, Uninit)}
    /\ tree' = [tree EXCEPT !._instance = nextId]
    /\ nextId' = nextId + 1
    /\ cpc' = [cpc EXCEPT ![t] = [@ EXCEPT !.at = "init", !.obj = nextId]]
    /\ ops' = ops
    /\ UNCHANGED SingletonFrame /\ UNCHANGED Parked

\* instantiate: self.__init__(*args), the with block is left, self is returned
Initialise(t) ==
    /\ cpc[t].at = "init"
    /\ store' = {IF o.id = cpc[t].obj THEN Obj(o.id, cpc[t].args) ELSE o : o \in store}
    /\ tree' = [tree EXCEPT !.mutex = 0]
    /\ ops' = Append(ops, Did("instantiate", t, cpc[t].args, "none", cpc[t].obj))
    /\ cpc' = [cpc EXCEPT ![t] = Idle]
    /\ nextId' = nextId
    /\ UNCHANGED SingletonFrame /\ UNCHANGED Parked

\* A(*args): type.__call__ runs __new__, which raises ValueError unless the mutex is
\* locked, whichever thread locked it; when it is, the object is made, cls._instance is
\* set to it and __init__(*args) runs on it
DirectCall(t, args) ==
    /\ cpc[t] = Idle /\ Len(ops) < MaxOps
    /\ IF tree.mutex = 0
       THEN /\ ops' = Append(ops, Did("call", t, args, "ValueError", 0))
            /\ UNCHANGED <<store, tree, nextId>>
       ELSE /\ store' = store \cup {Obj(nextId, args)}
            /\ tree' = [tree EXCEPT !._instance = nextId]
            /\ nextId' = nextId + 1
            /\ ops' = Append(ops, Did("call", t, args, "none", nextId))
    /\ UNCHANGED cpc
    /\ UNCHANGED SingletonFrame /\ UNCHANGED Parked

\* instance(): ValueError while cls._instance is None, else cls._instance
instance(t) ==
    /\ cpc[t] = Idle /\ Len(ops) < MaxOps
    /\ ops' = Append(ops, IF tree._instance = 0 THEN Did("instance", t, Uninit, "ValueError", 0)
                          ELSE Did("instance", t, Uninit, "none", tree._instance))
    /\ UNCHANGED <<store, tree, nextId, cpc>>
    /\ UNCHANGED SingletonFrame /\ UNCHANGED Parked

Instantiate == \E t \in Threads, args \in InitArgs : Acquire(t, args)
InstantiateNew == \E t \in Threads : New(t)
InstantiateInit == \E t \in Threads : Initialise(t)
Direct == \E t \in Threads, args \in InitArgs : DirectCall(t, args)
Instance == \E t \in Threads : instance(t)

InitSingleton ==
    /\ InitParked
    /\ tree = [_instance |-> 0, mutex |-> 0]
    /\ store = {}
    /\ nextId = 1
    /\ cpc = [t \in Threads |-> Idle]
    /\ ops = << >>
    /\ built = << >>
    /\ exc = NoExc
    /\ ret = << >>
    /\ store0 = {}
NextSingleton ==
    \/ Instantiate
    \/ InstantiateNew
    \/ InstantiateInit
    \/ Direct
    \/ Instance
SpecSingleton == InitSingleton /\ [][NextSingleton]_vars

\* ---------------------------------------------------------------- C30
\* C30: for a Singleton subclass, a direct call of the class raises ValueError and makes
\* no object; instance() before any instantiate has returned raises ValueError; and
\* after instantiate(args) has returned the object a, instance() returns a, and a is
\* initialised with args.
C30_Original ==
    \A j \in 1..Len(ops) :
        /\ ops[j].op = "call" => (ops[j].raised = "ValueError" /\ ops[j].obj = 0)
        /\ (ops[j].op = "instance" /\ \A i \in 1..(j - 1) : ops[i].op # "instantiate")
              => ops[j].raised = "ValueError"
        /\ \A i \in 1..(j - 1) :
              (ops[i].op = "instantiate" /\ ops[j].op = "instance")
                  => /\ ops[j].raised = "none" /\ ops[j].obj = ops[i].obj
                     /\ Obj(ops[i].obj, ops[i].args) \in store

\* ------------------------------------------- the configuration on its own
\* init_client_conf / init_server_conf and the getters of celery_app/config.py: tree is
\* what the process finds (the CMDPROXY_* variables, the configuration file) and the
\* keyword arguments the caller has at hand, store the module globals _app_client_conf
\* and _app_server_conf, ops the calls made so far with what each returned or raised
Unset == "<unset>"                      \* None: no argument, no variable, no key in the file
ClientKeys == {"redis_url", "mongo_url", "mongo_dbname"}
ServerKeys == ClientKeys \cup {"command_palette"}
EnvVar == [redis_url |-> "CMDPROXY_REDIS_URL", mongo_url |-> "CMDPROXY_MONGO_URL",
           mongo_dbname |-> "CMDPROXY_MONGO_DBNAME", command_palette |-> "CMDPROXY_COMMAND_PALETTE"]
\* the defaults of CmdProxyClientConfFile / CmdProxyServerConfFile
ConfDefault == [redis_url |-> "redis://localhost:6379", mongo_url |-> "mongodb://localhost:27017",
                mongo_dbname |-> "cmdproxy-db", command_palette |-> Unset]
\* os.path.exists(command_palette)
PaletteExists(path) == path # "gone"

\* the later operand wins whenever it is there
py_orLast(a, b) == IF b \in {Unset, ""} THEN a ELSE b
\* a or b: b when a is None or empty
py_or(a, b) == IF a \in {Unset, ""} THEN b ELSE a
\* AutoSerde.deserialize(conf_path, cls=...) if the file exists, else the defaults
ConfFile(file) == [k \in ServerKeys |-> IF file[k] = Unset THEN ConfDefault[k] ELSE file[k]]
\* arg or os.getenv(name) or conf.key
Resolved(args, env, file, k) == py_or(py_or(args[k], env[EnvVar[k]]), ConfFile(file)[k])

\* CmdProxyClientConf / CmdProxyServerConf, as the values they are built from
Conf(end, args, env, file) ==
    [end |-> end,
     broker_url |-> Resolved(args, env, file, "redis_url"),
     backend_url |-> Resolved(args, env, file, "mongo_url"),
     mongo_url |-> Resolved(args, env, file, "mongo_url"),
     mongo_dbname |-> Resolved(args, env, file, "mongo_dbname"),
     command_palette_path |->
        IF end = "server" THEN py_or(Resolved(args, env, file, "command_palette"), Unset)
        ELSE Unset]
NoConf == [end |-> Unset, broker_url |-> Unset, backend_url |-> Unset, mongo_url |-> Unset,
           mongo_dbname |-> Unset, command_palette_path |-> Unset]
NoArgs == [k \in ServerKeys |-> Unset]
ConfCall(op, end, args, raised, conf) ==
    [op |-> op, end |-> end, args |-> args, raised |-> raised, conf |-> conf]
ConfFrame == <<tree, nextId, cpc, built, exc, ret, store0>>

\* init_client_conf(**args) / init_server_conf(**args): the server asserts that the
\* palette file exists before it builds the configuration
init_conf(end, args) ==
    /\ Len(ops) < MaxOps
    /\ LET c == Conf(end, args, tree.env, tree.file) IN
       IF end = "server" /\ c.command_palette_path # Unset /\ ~PaletteExists(c.command_palette_path)
       THEN /\ store' = store
            /\ ops' = Append(ops, ConfCall("init", end, args, "AssertionError", NoConf))
       ELSE /\ store' = [store EXCEPT ![end] = c]
            /\ ops' = Append(ops, ConfCall("init", end, args, "none", c))
    /\ UNCHANGED ConfFrame /\ UNCHANGED Parked
\* get_client_end_conf() / get_server_end_conf()
get_conf(end) ==
    /\ Len(ops) < MaxOps
    /\ ops' = Append(ops, IF store[end] = NoConf
                          THEN ConfCall("get", end, NoArgs, "RuntimeError", NoConf)
                          ELSE ConfCall("get", end, NoArgs, "none", store[end]))
    /\ UNCHANGED store
    /\ UNCHANGED ConfFrame /\ UNCHANGED Parked

InitClientConf == \E args \in {tree.args, NoArgs} : init_conf("client", args)
InitServerConf == \E args \in {tree.args, NoArgs} : init_conf("server", args)
GetClientEndConf == get_conf("client")
GetServerEndConf == get_conf("server")

\* the key under study has every combination of argument, variable and file entry; the
\* other keys come from nowhere or from everywhere at once
ArgValues(k) == {Unset, "", "arg"} \cup (IF k = "command_palette" THEN {"gone"} ELSE {})
Scene(k, a, e, f, others) ==
    [args |-> [x \in ServerKeys |-> IF x = k THEN a ELSE IF others THEN "arg" ELSE Unset],
     env |-> [n \in {EnvVar[x] : x \in ServerKeys} |->
                IF n = EnvVar[k] THEN e ELSE IF others THEN "env" ELSE Unset],
     file |-> [x \in ServerKeys |-> IF x = k THEN f ELSE IF others THEN "file" ELSE Unset]]
ConfScenes ==
    UNION {{Scene(k, a, e, f, o) : a \in ArgValues(k), e \in {Unset, "", "env"},
                                   f \in {Unset, "file"}, o \in BOOLEAN} : k \in ServerKeys}

InitConf ==
    /\ InitParked
    /\ tree \in ConfScenes
    /\ store = [client |-> NoConf, server |-> NoConf]
    /\ nextId = 1
    /\ cpc = "call"
    /\ ops = << >>
    /\ built = << >>
    /\ exc = NoExc
    /\ ret = << >>
    /\ store0 = {}
NextConf ==
    \/ InitClientConf
    \/ InitServerConf
    \/ GetClientEndConf
    \/ GetServerEndConf
SpecConf == InitConf /\ [][NextConf]_vars

\* ---------------------------------------------------------------- C31
\* the value of key k a call of init with args has to settle on: the first of argument,
\* variable, file entry and default that is there (there(v): what counts as being there)
Settled(there(_), args, k) ==
    IF there(args[k]) THEN args[k]
    ELSE IF there(tree.env[EnvVar[k]]) THEN tree.env[EnvVar[k]]
    ELSE IF tree.file[k] # Unset THEN tree.file[k]
    ELSE ConfDefault[k]
IsGiven(v) == v # Unset
IsFilled(v) == v \notin {Unset, ""}
\* init call i returned a configuration that holds the settled values
Settles(there(_), i) ==
    LET c == ops[i].conf
        a == ops[i].args
    IN /\ c.broker_url = Settled(there, a, "redis_url")
       /\ c.mongo_url = Settled(there, a, "mongo_url")
       /\ c.mongo_dbname = Settled(there, a, "mongo_dbname")
       /\ ops[i].end = "server" => c.command_palette_path = Settled(there, a, "command_palette")
\* the init calls of the end of call j that returned before it
Inits(j) == {i \in 1..(j - 1) : ops[i].op = "init" /\ ops[i].end = ops[j].end /\ ops[i].raised = "none"}
\* a getter raises before any init of its end, else returns what the latest one built
GetsLatest ==
    \A j \in 1..Len(ops) :
        ops[j].op = "get" =>
            IF Inits(j) = {} THEN ops[j].raised = "RuntimeError"
            ELSE /\ ops[j].raised = "none"
                 /\ \E i \in Inits(j) : (\A h \in Inits(j) : h <= i) /\ ops[j].conf = ops[i].conf

C32_Original == cpc = "done" => held = TreeParams(tree)

\* ---------------------------------------------------------------- C33
\* C33: the exit of an OutLocalFile guard that finds no blob under the parameter's name
\* leaves the caller's file at that path as it was: neither created nor truncated.
C33_Original ==
    [][(AtExit({"OutLocal"}) /\ Named(store, cloud_url(Last.out)) = {})
          => localFs'[Last.p.a] = localFs[Last.p.a]]_vars

\* ---------------------------------------------------------------- C34
\* C34: when the worker has put a blob for an OutLocalFile whose local path the client
\* cannot write, run does not return normally with that blob still in the store.
C34_Original ==
    (Returned /\ DistinctNames(tree)) =>
        \A p \in OfKind(tree, "OutLocal") :
            ~DirExists(p.a) => Named(wput, cloud_url(p)) \cap store = {}

\* ---------------------------------------------------------------- C35
\* C35: the exit of an OutStream guard whose slot holds no blob completes without
\* raising and leaves the writer as it was: the exception in flight (none after a run
\* that succeeded) and the writer's content and position are the same after it.
C35_Original ==
    [][(AtExit({"OutStream"}) /\ Named(store, cloud_url(Last.out)) = {})
          => (exc' = exc /\ streams' = streams)]_vars

\* ---------------------------------------------------------------- C38
\* the exit recorded at position i of the history raised: it is the exit of an OutStream
\* guard that found no blob to download
ExitRaised(i) ==
    /\ ops[i].op = "exit"
    /\ Tokens(tree)[ops[i].id].p.k = "OutStream"
    /\ (i = 1 \/ ops[i - 1].op # "del" \/ ops[i - 1].id # ops[i].id)
\* C38: when the exit of one client guard has raised, then by the time run is over the
\* guards entered before it have exited all the same, in reverse order of their entry;
\* the deletion of every input blob the call uploaded has run, and (the call's names
\* being distinct, on a store that was empty) no blob the client uploaded is left.
C38_ExitsStillRun ==
    (cpc = "done" /\ \E i \in 1..Len(ops) : ExitRaised(i)) =>
        /\ exc # NoExc
        /\ Ids(Events("exit")) = Reverse(Ids(Events("enter")))
        /\ \A j \in 1..Len(ops) :
              ops[j].op = "put" =>
                  \E n \in (j + 1)..Len(ops) : ops[n].op = "del" /\ ops[n].id = ops[j].id
        /\ (store0 = {} /\ DistinctNames(tree)) => store \subseteq wput
\* the exit of an OutStream raised after the request had been answered, and the file
\* uploaded before it was deleted after that
C38_Witness ==
    /\ cpc = "done" /\ exc.kind = "FileNotFoundError" /\ resp # << >>
    /\ Len(tree.args) = 2 /\ tree.args[1].k = "InLocal" /\ tree.args[2].k = "OutStream"
    /\ \E i \in 1..Len(ops) :
          /\ ExitRaised(i)
          /\ i + 1 \in 1..Len(ops) /\ ops[i + 1].op = "del" /\ ops[i + 1].id = 2
    /\ store0 = {} /\ store \subseteq wput

\* ---------------------------------------------------------------- C39
\* C39: no step of the handler takes an entry out of the store or changes one: what a
\* step adds are entries with ids the store did not have, under the names of the
\* OutCloudFile parameters of the request (the sinks included), whether the request
\* succeeds or fails.
C39_OnlyPuts ==
    [][/\ store \subseteq store'
       /\ \A e \in store' \ store :
             /\ \A o \in store : o.id # e.id
             /\ \E i \in OutCloudGuards : cloud_url(sguards[i].p) = << e.host, e.path >>]_vars
\* the handler has answered a request that failed after it had put a blob, under a name
\* that had an entry before: both entries are in the store
C39_Witness ==
    /\ spc = "done" /\ sres.exc # "none"
    /\ \E e \in wput \cap store : \E o \in store \ wput : o.host = e.host /\ o.path = e.path

\* ---------------------------------------------------------------- C40
\* C40: whatever the other thread is doing, a direct call of the class raises ValueError
\* and leaves the stored instance as it is, and an object instance() returns has been
\* initialised.
C40_Original ==
    [][Len(ops') = Len(ops) + 1 =>
          LET d == ops'[Len(ops')] IN
          /\ d.op = "call" => (d.raised = "ValueError" /\ tree'._instance = tree._instance)
          /\ (d.op = "instance" /\ d.raised = "none") => Obj(d.obj, Uninit) \notin store]_vars

\* ------------------------------------------- two calls at the same time
\* two callers on one host run Client.run at the same time, each with one input of the
\* same canonical name: tree is the kind of input each call carries (an InLocalFile of
\* PathA or an InStream named PathA), store the one store both use, cpc where each
\* call is, with the id its upload got (fid), the id the worker read for it (got) and
\* the id its removal found (found); store0 is the store before the calls
SharedName == cloud_url(as_cloud(ipath(PathA)))
\* the file is one file; the two readers hold different bytes
Body(c) == IF tree[c] = "InLocal" THEN DataA ELSE IF c = 1 THEN DataS ELSE DataW
Waiting == [at |-> "idle", fid |-> 0, got |-> 0, found |-> 0]
PairFrame == <<tree, built, exc, ret, store0, ops>>

\* the guard up to its yield: InFileGuard's file_id = arg.upload_(fs), InStreamGuard's
\* param.upload(fs, body=arg.read_bytes())
Stage(c) ==
    /\ cpc[c].at = "idle"
    /\ store' = fs_put(store, nextId, SharedName, Body(c))
    /\ nextId' = nextId + 1
    /\ cpc' = [cpc EXCEPT ![c] = [@ EXCEPT !.at = "staged", !.fid = nextId]]
    /\ UNCHANGED PairFrame /\ UNCHANGED Parked
\* the request is answered: the worker's InFileGuard has downloaded whatever entry
\* find_one gave it for the name, or failed with FileNotFoundError (got = 0)
Handle(c) ==
    /\ cpc[c].at = "staged"
    /\ IF find_one(store, SharedName) = {}
       THEN cpc' = [cpc EXCEPT ![c] = [@ EXCEPT !.at = "answered"]]
       ELSE \E e \in find_one(store, SharedName) :
               cpc' = [cpc EXCEPT ![c] = [@ EXCEPT !.at = "answered", !.got = e.id]]
    /\ UNCHANGED <<store, nextId>>
    /\ UNCHANGED PairFrame /\ UNCHANGED Parked
\* the exit removes an entry of the name, whichever find_one gives
ExitInFileByName(c) ==
    /\ cpc[c].at = "answered" /\ tree[c] = "InLocal"
    /\ remove_from_cloud(SharedName)
    /\ nextId' = nextId
    /\ cpc' = [cpc EXCEPT ![c] = [@ EXCEPT !.at = "done"]]
    /\ UNCHANGED PairFrame /\ UNCHANGED Parked
\* InFileGuard's finally: self.ctx.fs.delete(file_id)
ExitInFile(c) ==
    /\ cpc[c].at = "answered" /\ tree[c] = "InLocal"
    /\ store' = fs_delete(store, cpc[c].fid)
    /\ nextId' = nextId
    /\ cpc' = [cpc EXCEPT ![c] = [@ EXCEPT !.at = "done"]]
    /\ UNCHANGED PairFrame /\ UNCHANGED Parked
\* InStreamGuard's finally, remove_from_cloud: f = fs.find_one(dict(filename=...))
ExitFind(c) ==
    /\ cpc[c].at = "answered" /\ tree[c] = "InStream"
    /\ IF find_one(store, SharedName) = {}
       THEN cpc' = [cpc EXCEPT ![c] = [@ EXCEPT !.at = "found"]]
       ELSE \E e \in find_one(store, SharedName) :
               cpc' = [cpc EXCEPT ![c] = [@ EXCEPT !.at = "found", !.found = e.id]]
    /\ UNCHANGED <<store, nextId>>
    /\ UNCHANGED PairFrame /\ UNCHANGED Parked
\* remove_from_cloud: if f is not None: fs.delete(f._id)
ExitDelete(c) ==
    /\ cpc[c].at = "found"
    /\ store' = IF cpc[c].found = 0 THEN store ELSE fs_delete(store, cpc[c].found)
    /\ nextId' = nextId
    /\ cpc' = [cpc EXCEPT ![c] = [@ EXCEPT !.at = "done"]]
    /\ UNCHANGED PairFrame /\ UNCHANGED Parked

Staging == \E c \in Threads : Stage(c)
Handling == \E c \in Threads : Handle(c)
InFileExiting == \E c \in Threads : ExitInFile(c)
InStreamFinding == \E c \in Threads : ExitFind(c)
InStreamDeleting == \E c \in Threads : ExitDelete(c)

InitPair ==
    /\ InitParked
    /\ tree \in [Threads -> {"InLocal", "InStream"}]
    /\ store \in {{}, {Entry(1, SharedName, DataOld)}}
    /\ store0 = store
    /\ nextId = 2
    /\ cpc = [c \in Threads |-> Waiting]
    /\ ops = << >>
    /\ built = << >>
    /\ exc = NoExc
    /\ ret = << >>
NextPair ==
    \/ Staging
    \/ Handling
    \/ InFileExiting
    \/ InStreamFinding
    \/ InStreamDeleting
SpecPair == InitPair /\ [][NextPair]_vars

\* ---------------------------------------------------------------- C36
BothCarry(k) == \A c \in Threads : tree[c] = k
\* the entry of the store with the id an upload got
Own(s, fid) == {e \in s : e.id = fid}
\* C36: with an InLocalFile of the same path in both calls, the exit of a call takes
\* out of the store the entry that call uploaded and nothing else; while a call's
\* request is unanswered the entry it uploaded is in the store under the name, and the
\* worker that answers it has found a blob of the name.
C36_OwnBlob ==
    [][BothCarry("InLocal") =>
          \A c \in Threads :
              /\ (cpc[c].at = "answered" /\ cpc'[c].at = "done")
                     => (Own(store, cpc[c].fid) # {} /\ store \ store' = Own(store, cpc[c].fid))
              /\ cpc'[c].at = "staged" => Own(store', cpc'[c].fid) \cap Named(store', SharedName) # {}
              /\ cpc'[c].at = "answered" => cpc'[c].got # 0]_vars
\* both calls are over, the worker of the first call read the blob the second call had
\* uploaded, and the store is as it was before the calls
C36_Witness ==
    /\ BothCarry("InLocal")
    /\ \A c \in Threads : cpc[c].at = "done"
    /\ cpc[1].got = cpc[2].fid
    /\ store = store0

\* ---------------------------------------------------------------- C37
\* C37: with an InStream of the same filename in both calls, the exit of one call does
\* not take out of the store the blob the other call staged while the other call's
\* request is unanswered; once both calls are over no blob of the name is in the store
\* (that held none before).
C37_Original ==
    /\ [][BothCarry("InStream") =>
             \A c, o \in Threads :
                 (c # o /\ cpc[o].at = "staged") => (Own(store, cpc[o].fid) \subseteq store')]_vars
    /\ []((BothCarry("InStream") /\ store0 = {} /\ \A c \in Threads : cpc[c].at = "done")
            => Named(store, SharedName) = {})

====
